---- MODULE Spec2Model ----
(***************************************************************************)
(* Event-sourced organization aggregate of cim-domain-organization.        *)
(*                                                                         *)
(* The repository carries two drafts of the aggregate:                     *)
(*   - src/src/aggregate.rs      (entity-based; names here are unsuffixed) *)
(*   - src/src/aggregate/mod.rs  (value-object based; names carry "V2")    *)
(* together with the in-memory event store and command handler of          *)
(* src/src/handlers/command_handler.rs (built on the V2 aggregate) and the *)
(* snapshotting repository of src/src/infrastructure/persistence.rs (built *)
(* on the aggregate.rs draft).                                             *)
(***************************************************************************)
EXTENDS Integers, Sequences, FiniteSets, TLC

VARIABLES
    agg,        \* aggregate.rs: the OrganizationAggregate under command
    pending,    \* events returned by the last handle_command, not yet applied
    pc,         \* "idle" | "handled": position in a handle-then-apply cycle
    last,       \* the last command handled and its Result (ok / error kind)
    applied,    \* number of apply_event calls made on agg so far
    store,      \* command_handler.rs InMemoryEventStore: id -> Vec<event>
    wk,         \* command_handler.rs: one record per in-flight handler call
    agg2,       \* aggregate/mod.rs aggregate built by handle-then-apply cycles
    log2,       \* events emitted by agg2's handle_command, in order
    stream,     \* persistence.rs: NatsEventStore stream, id -> Vec<event>
    snapshots,  \* persistence.rs: InMemorySnapshotStore, id -> snapshot|NoSnap
    got,        \* persistence.rs: result of the last OrganizationRepository::get
    rm,         \* query_handler.rs: InMemoryReadModelStore behind ProjectionUpdater
    fleet,      \* several aggregates side by side: organization id -> aggregate
    saved,      \* persistence.rs: outcome of the last OrganizationRepository::save
    nats,       \* nats_integration.rs: the command subscription, its loop and the replies
    org,        \* organization.rs: one Organization value
    tasks,      \* query_handler.rs: concurrent calls on one ProjectionUpdater / store
    locks       \* query_handler.rs: the three RwLocks of InMemoryReadModelStore

vars == <<agg, pending, pc, last, applied, store, wk, agg2, log2, stream, snapshots, got,
         rm, fleet, saved, nats, org, tasks, locks>>

aggVars  == <<agg, pending, pc, last, applied>>
hdlVars  == <<store, wk>>
v2Vars   == <<agg2, log2>>
repoVars == <<stream, snapshots, got>>
sideVars == <<rm, fleet, saved, nats, org, tasks, locks>>

(***************************************************************************)
(* Bounds                                                                  *)
(***************************************************************************)
MaxEvents == 4          \* events applied to one aggregate in a run
MaxMemberEvents == 5    \* the same, in runs of member commands only

None == "none"          \* Option::None

SelfId   == "o1"        \* id of the aggregate under command
OtherOrg == "o2"        \* another organization id
OrgIds   == {SelfId, OtherOrg}

(***************************************************************************)
(* entity.rs OrganizationStatus and the transition check of aggregate.rs   *)
(***************************************************************************)
OrganizationStatus == {"Pending", "Active", "Inactive", "Suspended", "Dissolved", "Merged"}

IsValidStatusTransitionTerminalOpen(from, to) ==
    /\ from # to
    /\ \/ from = "Pending" /\ to = "Active"
       \/ from = "Active" /\ to \in {"Inactive", "Suspended", "Dissolved", "Merged"}
       \/ from = "Inactive" /\ to = "Active"
       \/ from = "Suspended" /\ to \in {"Active", "Dissolved"}
       \/ from = "Dissolved" /\ to = "Active"

IsValidStatusTransition(from, to) ==
    IF from = to THEN FALSE
    ELSE IF from = "Pending" /\ to = "Active" THEN TRUE
    ELSE IF from = "Active" /\ to \in {"Inactive", "Suspended", "Dissolved", "Merged"} THEN TRUE
    ELSE IF from = "Inactive" /\ to = "Active" THEN TRUE
    ELSE IF from = "Suspended" /\ to \in {"Active", "Dissolved"} THEN TRUE
    ELSE FALSE

(***************************************************************************)
(* aggregate.rs: constructors                                              *)
(***************************************************************************)
NoOrg == [present |-> FALSE, id |-> None, name |-> None, status |-> None]

EmptyMap == [x \in {} |-> None]

Empty ==
    [id |-> SelfId, name |-> "", status |-> "Pending",
     members |-> EmptyMap, locations |-> EmptyMap,
     child_organizations |-> {}, organization |-> NoOrg,
     departments |-> {}, teams |-> {}, roles |-> {}, version |-> 0]

New(id, name) ==
    [id |-> id, name |-> name, status |-> "Pending",
     members |-> EmptyMap, locations |-> EmptyMap,
     child_organizations |-> {},
     organization |-> [present |-> TRUE, id |-> id, name |-> name, status |-> "Pending"],
     departments |-> {}, teams |-> {}, roles |-> {}, version |-> 0]

(***************************************************************************)
(* HashMap helpers                                                         *)
(***************************************************************************)
Insert(m, k, v) == [x \in (DOMAIN m) \cup {k} |-> IF x = k THEN v ELSE m[x]]
Remove(m, k)    == [x \in (DOMAIN m) \ {k} |-> m[x]]

(***************************************************************************)
(* Result<Vec<OrganizationEvent>> of a handler, with the aggregate the     *)
(* handler leaves behind (handlers take &mut self).                        *)
(***************************************************************************)
Ok(a, evs) == [agg |-> a, ok |-> TRUE, err |-> None, events |-> evs]
Err(a, e)  == [agg |-> a, ok |-> FALSE, err |-> e, events |-> <<>>]

(***************************************************************************)
(* aggregate.rs: would_create_circular_reference                           *)
(* Walks up from new_manager_id along role.reports_to; stops at a          *)
(* non-member, at a member with no manager, or at a revisited member.      *)
(***************************************************************************)
RECURSIVE CircularWalk(_, _, _, _)
CircularWalk(members, current, visited, subordinate_id) ==
    IF current \notin DOMAIN members THEN FALSE
    ELSE IF current \in visited THEN FALSE
    ELSE IF current = subordinate_id THEN TRUE
    ELSE IF members[current].role.reports_to # None
         THEN CircularWalk(members, members[current].role.reports_to,
                           visited \cup {current}, subordinate_id)
         ELSE FALSE

WouldCreateCircularReferenceDirectOnly(a, subordinate_id, new_manager_id) ==
    new_manager_id = subordinate_id
    \/ (new_manager_id \in DOMAIN a.members
        /\ a.members[new_manager_id].role.reports_to = subordinate_id)

WouldCreateCircularReference(a, subordinate_id, new_manager_id) ==
    CircularWalk(a.members, new_manager_id, {}, subordinate_id)

(***************************************************************************)
(* aggregate.rs: command handlers.  A command is a record with a `type`    *)
(* and the fields the handler reads; ids minted by the handler             *)
(* (EntityId::new()) are carried in the command as `fresh`.                *)
(***************************************************************************)
HandleCreateOrganization(a, cmd) ==
    IF a.organization.present THEN Err(a, "DuplicateEntity")
    ELSE Ok(a, <<[type |-> "OrganizationCreated", organization_id |-> cmd.fresh,
                  name |-> cmd.name]>>)

HandleUpdateOrganization(a, cmd) ==
    IF ~a.organization.present THEN Err(a, "OrganizationNotFound")
    ELSE Ok(a, <<[type |-> "OrganizationUpdated", name |-> cmd.name,
                  status |-> cmd.status]>>)

HandleDissolveOrganization(a, cmd) ==
    IF ~a.organization.present THEN Err(a, "OrganizationNotFound")
    ELSE Ok(a, <<[type |-> "OrganizationDissolved"]>>)

HandleMergeOrganizations(a, cmd) ==
    IF ~a.organization.present THEN Err(a, "OrganizationNotFound")
    ELSE IF cmd.surviving_organization_id = cmd.merged_organization_id
         THEN Err(a, "CircularReference")
    ELSE Ok(a, <<[type |-> "OrganizationMerged",
                  surviving_organization_id |-> cmd.surviving_organization_id,
                  merged_organization_id |-> cmd.merged_organization_id]>>)

HandleCreateDepartment(a, cmd) ==
    IF ~a.organization.present THEN Err(a, "OrganizationNotFound")
    ELSE Ok(a, <<[type |-> "DepartmentCreated", department_id |-> cmd.fresh]>>)

\* handle_update_department, handle_restructure_department and
\* handle_dissolve_department share one shape: existence check, then the event.
HandleDepartmentCommand(a, cmd, eventType) ==
    IF cmd.department_id \notin a.departments THEN Err(a, "DepartmentNotFound")
    ELSE Ok(a, <<[type |-> eventType, department_id |-> cmd.department_id]>>)

HandleCreateTeam(a, cmd) ==
    IF ~a.organization.present THEN Err(a, "OrganizationNotFound")
    ELSE Ok(a, <<[type |-> "TeamFormed", team_id |-> cmd.fresh]>>)

\* handle_update_team and handle_disband_team
HandleTeamCommand(a, cmd, eventType) ==
    IF cmd.team_id \notin a.teams THEN Err(a, "TeamNotFound")
    ELSE Ok(a, <<[type |-> eventType, team_id |-> cmd.team_id]>>)

HandleCreateRole(a, cmd) ==
    IF ~a.organization.present THEN Err(a, "OrganizationNotFound")
    ELSE Ok(a, <<[type |-> "RoleCreated", role_id |-> cmd.fresh]>>)

\* handle_update_role, handle_assign_role, handle_vacate_role and
\* handle_deprecate_role validate nothing.
HandleRoleCommand(a, cmd, eventType) ==
    Ok(a, <<[type |-> eventType, role_id |-> cmd.role_id]>>)

HandleAddMemberMutating(a, cmd) ==
    IF cmd.person_id \in DOMAIN a.members THEN Err(a, "DuplicateEntity")
    ELSE Ok([a EXCEPT !.members = Insert(a.members, cmd.person_id, [role |-> cmd.role])],
            <<[type |-> "MemberAdded", person_id |-> cmd.person_id, role |-> cmd.role]>>)

HandleAddMember(a, cmd) ==
    IF cmd.person_id \in DOMAIN a.members THEN Err(a, "DuplicateEntity")
    ELSE Ok(a, <<[type |-> "MemberAdded", person_id |-> cmd.person_id, role |-> cmd.role]>>)

HandleUpdateMemberRole(a, cmd) ==
    IF cmd.person_id \notin DOMAIN a.members THEN Err(a, "OrganizationNotFound")
    ELSE Ok(a, <<[type |-> "MemberRoleUpdated", person_id |-> cmd.person_id,
                  new_role |-> cmd.new_role,
                  previous_role |-> a.members[cmd.person_id].role]>>)

HandleRemoveMember(a, cmd) ==
    IF cmd.person_id \notin DOMAIN a.members THEN Err(a, "OrganizationNotFound")
    ELSE Ok(a, <<[type |-> "MemberRemoved", person_id |-> cmd.person_id]>>)

HandleChangeReportingRelationship(a, cmd) ==
    IF cmd.subordinate_id \notin DOMAIN a.members THEN Err(a, "OrganizationNotFound")
    ELSE IF cmd.new_manager_id \notin DOMAIN a.members THEN Err(a, "OrganizationNotFound")
    ELSE IF WouldCreateCircularReference(a, cmd.subordinate_id, cmd.new_manager_id)
         THEN Err(a, "CircularReference")
    ELSE Ok(a, <<[type |-> "ReportingRelationshipChanged",
                  person_id |-> cmd.subordinate_id,
                  new_manager_id |-> cmd.new_manager_id,
                  previous_manager_id |-> a.members[cmd.subordinate_id].role.reports_to]>>)

\* handle_add_location with every added location marked primary.
HandleAddLocationAlwaysPrimary(a, cmd) ==
    IF cmd.location_id \in DOMAIN a.locations THEN Err(a, "DuplicateEntity")
    ELSE Ok(a, <<[type |-> "LocationAdded", location_id |-> cmd.location_id,
                  is_primary |-> TRUE]>>)

\* handle_add_location with no added location marked primary.
HandleAddLocationNeverPrimary(a, cmd) ==
    IF cmd.location_id \in DOMAIN a.locations THEN Err(a, "DuplicateEntity")
    ELSE Ok(a, <<[type |-> "LocationAdded", location_id |-> cmd.location_id,
                  is_primary |-> FALSE]>>)

HandleAddLocation(a, cmd) ==
    IF cmd.location_id \in DOMAIN a.locations THEN Err(a, "DuplicateEntity")
    ELSE Ok(a, <<[type |-> "LocationAdded", location_id |-> cmd.location_id,
                  is_primary |-> (DOMAIN a.locations = {})]>>)

\* locations.iter().find(|loc| loc.is_primary): any primary entry, in
\* HashMap iteration order.
PreviousPrimaries(a) ==
    IF \E l \in DOMAIN a.locations : a.locations[l].is_primary
    THEN {l \in DOMAIN a.locations : a.locations[l].is_primary}
    ELSE {None}

HandleChangePrimaryLocation(a, cmd, previous) ==
    IF cmd.location_id \notin DOMAIN a.locations THEN Err(a, "OrganizationNotFound")
    ELSE Ok(a, <<[type |-> "PrimaryLocationChanged",
                  new_primary_location_id |-> cmd.location_id,
                  previous_primary_location_id |-> previous]>>)

HandleRemoveLocation(a, cmd) ==
    IF cmd.location_id \notin DOMAIN a.locations THEN Err(a, "OrganizationNotFound")
    ELSE Ok(a, <<[type |-> "LocationRemoved", location_id |-> cmd.location_id]>>)

HandleAddChildOrganization(a, cmd) ==
    IF cmd.child_organization_id = a.id THEN Err(a, "CircularReference")
    ELSE IF cmd.child_organization_id \in a.child_organizations
         THEN Err(a, "DuplicateEntity")
    ELSE Ok(a, <<[type |-> "ChildOrganizationAdded",
                  child_organization_id |-> cmd.child_organization_id]>>)

HandleRemoveChildOrganization(a, cmd) ==
    IF cmd.child_organization_id \notin a.child_organizations
    THEN Err(a, "OrganizationNotFound")
    ELSE Ok(a, <<[type |-> "ChildOrganizationRemoved",
                  child_organization_id |-> cmd.child_organization_id]>>)

HandleChangeOrganizationStatus(a, cmd) ==
    IF ~IsValidStatusTransition(a.status, cmd.new_status) THEN Err(a, "InvalidStructure")
    ELSE Ok(a, <<[type |-> "OrganizationStatusChanged", new_status |-> cmd.new_status,
                  previous_status |-> a.status]>>)

(***************************************************************************)
(* aggregate.rs: handle_command (dispatch on the command variant)          *)
(***************************************************************************)
HandleCommand(a, cmd) ==
    CASE cmd.type = "CreateOrganization"    -> HandleCreateOrganization(a, cmd)
      [] cmd.type = "UpdateOrganization"    -> HandleUpdateOrganization(a, cmd)
      [] cmd.type = "DissolveOrganization"  -> HandleDissolveOrganization(a, cmd)
      [] cmd.type = "MergeOrganizations"    -> HandleMergeOrganizations(a, cmd)
      [] cmd.type = "CreateDepartment"      -> HandleCreateDepartment(a, cmd)
      [] cmd.type = "UpdateDepartment"      -> HandleDepartmentCommand(a, cmd, "DepartmentUpdated")
      [] cmd.type = "RestructureDepartment" -> HandleDepartmentCommand(a, cmd, "DepartmentRestructured")
      [] cmd.type = "DissolveDepartment"    -> HandleDepartmentCommand(a, cmd, "DepartmentDissolved")
      [] cmd.type = "CreateTeam"            -> HandleCreateTeam(a, cmd)
      [] cmd.type = "UpdateTeam"            -> HandleTeamCommand(a, cmd, "TeamUpdated")
      [] cmd.type = "DisbandTeam"           -> HandleTeamCommand(a, cmd, "TeamDisbanded")
      [] cmd.type = "CreateRole"            -> HandleCreateRole(a, cmd)
      [] cmd.type = "UpdateRole"            -> HandleRoleCommand(a, cmd, "RoleUpdated")
      [] cmd.type = "AssignRole"            -> HandleRoleCommand(a, cmd, "RoleAssigned")
      [] cmd.type = "VacateRole"            -> HandleRoleCommand(a, cmd, "RoleVacated")
      [] cmd.type = "DeprecateRole"         -> HandleRoleCommand(a, cmd, "RoleDeprecated")
      [] cmd.type = "AddMember"             -> HandleAddMember(a, cmd)
      [] cmd.type = "UpdateMemberRole"      -> HandleUpdateMemberRole(a, cmd)
      [] cmd.type = "RemoveMember"          -> HandleRemoveMember(a, cmd)
      [] cmd.type = "ChangeReportingRelationship" -> HandleChangeReportingRelationship(a, cmd)
      [] cmd.type = "AddLocation"           -> HandleAddLocation(a, cmd)
      [] cmd.type = "ChangePrimaryLocation" -> HandleChangePrimaryLocation(a, cmd, cmd.previous)
      [] cmd.type = "RemoveLocation"        -> HandleRemoveLocation(a, cmd)
      [] cmd.type = "AddChildOrganization"  -> HandleAddChildOrganization(a, cmd)
      [] cmd.type = "RemoveChildOrganization" -> HandleRemoveChildOrganization(a, cmd)
      [] cmd.type = "ChangeOrganizationStatus" -> HandleChangeOrganizationStatus(a, cmd)

(***************************************************************************)
(* aggregate.rs: apply_event_pure.  Clones the aggregate, matches on the   *)
(* event variant, then increments the version as the last step.  Variants  *)
(* without an arm of their own fall into `_ => {}`.                        *)
(***************************************************************************)
ApplyArm(a, e) ==
    CASE e.type = "OrganizationCreated" ->
            [a EXCEPT !.organization = [present |-> TRUE, id |-> e.organization_id,
                                        name |-> e.name, status |-> "Active"],
                      !.status = "Active"]
      [] e.type = "OrganizationUpdated" ->
            IF a.organization.present
            THEN [a EXCEPT !.organization.name =
                               IF e.name # None THEN e.name ELSE @,
                           !.organization.status =
                               IF e.status # None THEN e.status ELSE @]
            ELSE a
      [] e.type = "DepartmentCreated" ->
            [a EXCEPT !.departments = @ \cup {e.department_id}]
      [] e.type = "TeamFormed" ->
            [a EXCEPT !.teams = @ \cup {e.team_id}]
      [] e.type = "RoleCreated" ->
            [a EXCEPT !.roles = @ \cup {e.role_id}]
      [] e.type = "MemberAdded" ->
            [a EXCEPT !.members = Insert(@, e.person_id, [role |-> e.role])]
      [] e.type = "LocationAdded" ->
            [a EXCEPT !.locations = Insert(@, e.location_id, [is_primary |-> e.is_primary])]
      [] e.type = "OrganizationStatusChanged" ->
            [a EXCEPT !.status = e.new_status,
                      !.organization.status =
                          IF a.organization.present THEN e.new_status ELSE @]
      [] e.type = "MemberRoleUpdated" ->
            IF e.person_id \in DOMAIN a.members
            THEN [a EXCEPT !.members[e.person_id].role = e.new_role]
            ELSE a
      [] e.type = "MemberRemoved" ->
            [a EXCEPT !.members = Remove(@, e.person_id)]
      [] e.type = "ReportingRelationshipChanged" ->
            IF e.person_id \in DOMAIN a.members
            THEN [a EXCEPT !.members[e.person_id].role.reports_to = e.new_manager_id]
            ELSE a
      [] e.type = "PrimaryLocationChanged" ->
            [a EXCEPT !.locations =
                [l \in DOMAIN @ |-> [is_primary |-> (l = e.new_primary_location_id)]]]
      [] e.type = "LocationRemoved" ->
            [a EXCEPT !.locations = Remove(@, e.location_id)]
      [] e.type = "OrganizationDissolved" ->
            [a EXCEPT !.status = "Dissolved",
                      !.organization.status =
                          IF a.organization.present THEN "Dissolved" ELSE @]
      [] e.type = "OrganizationMerged" ->
            [a EXCEPT !.status = "Merged",
                      !.organization.status =
                          IF a.organization.present THEN "Merged" ELSE @]
      [] e.type = "ChildOrganizationAdded" ->
            [a EXCEPT !.child_organizations = @ \cup {e.child_organization_id}]
      [] e.type = "ChildOrganizationRemoved" ->
            [a EXCEPT !.child_organizations = @ \ {e.child_organization_id}]
      [] OTHER -> a

ApplyEventPureNoBumpOnCatchAll(a, e) ==
    IF ApplyArm(a, e) = a THEN a
    ELSE [ApplyArm(a, e) EXCEPT !.version = @ + 1]

\* apply_event_pure with an arm for DepartmentDissolved that removes the department.
ApplyEventPureDissolvingDepartment(a, e) ==
    LET b == IF e.type = "DepartmentDissolved"
             THEN [a EXCEPT !.departments = @ \ {e.department_id}]
             ELSE ApplyArm(a, e)
    IN [b EXCEPT !.version = @ + 1]

ApplyEventPure(a, e) ==
    [ApplyArm(a, e) EXCEPT !.version = @ + 1]

\* apply_event: *self = self.apply_event_pure(event)?
ApplyEvent(a, e) == ApplyEventPure(a, e)

\* for event in &events { aggregate.apply_event(event)?; }
RECURSIVE ApplyAll(_, _)
ApplyAll(a, evs) ==
    IF evs = <<>> THEN a
    ELSE ApplyAll(ApplyEvent(a, Head(evs)), Tail(evs))

(***************************************************************************)
(* Driving aggregate.rs the way its callers and tests do: handle_command   *)
(* on the in-memory aggregate, then apply_event for each returned event.   *)
(***************************************************************************)
NoLast == [cmd |-> [type |-> None], ok |-> FALSE, err |-> None]

IdleHandlers == [w \in {} |-> None]
IdleRepo == [id \in OrgIds |-> <<>>]

\* InMemoryReadModelStore::new: three empty maps.
NewReadModel ==
    [organizations |-> EmptyMap, members |-> EmptyMap, person_organizations |-> EmptyMap]

\* The read model, the side-by-side aggregates and the save outcome, parked.
SideParked ==
    /\ rm = NewReadModel /\ fleet = EmptyMap /\ saved = <<>>
    /\ nats = None /\ org = None /\ tasks = None /\ locks = None

\* Variables of the other components, parked while the aggregate is driven.
OthersParked ==
    /\ store = IdleRepo /\ wk = IdleHandlers
    /\ agg2 = None /\ log2 = <<>>
    /\ stream = IdleRepo /\ snapshots = IdleRepo /\ got = <<>>
    /\ SideParked

IssueWithin(cmd, bound) ==
    /\ pc = "idle"
    /\ agg.version < bound
    /\ LET r == HandleCommand(agg, cmd) IN
         /\ agg' = r.agg
         /\ pending' = r.events
         /\ last' = [cmd |-> cmd, ok |-> r.ok, err |-> r.err]
    /\ pc' = "handled"
    /\ UNCHANGED <<applied, hdlVars, v2Vars, repoVars, sideVars>>

Issue(cmd) == IssueWithin(cmd, MaxEvents)

ApplyPending ==
    /\ pc = "handled"
    /\ agg' = ApplyAll(agg, pending)
    /\ applied' = applied + Len(pending)
    /\ pending' = <<>>
    /\ last' = [last EXCEPT !.cmd = [type |-> last.cmd.type]]
    /\ pc' = "idle"
    /\ UNCHANGED <<hdlVars, v2Vars, repoVars, sideVars>>

FreshOrgId == "o9"        \* EntityId::new() in handle_create_organization
Names      == {"n1"}
DeptIds    == {"d1"}
TeamIds    == {"t1"}
RoleIds    == {"r1"}
LocationIds == {"l1"}
Levels     == {"Mid", "Senior"}

OrganizationRole(level, reports_to) == [level |-> level, reports_to |-> reports_to]

\* One action per command variant.  Each action is a conjunction, so that its
\* command value is built anew in every step that takes it.
\* Organization lifecycle and status
CreateOrganization ==
    /\ \E n \in Names : Issue([type |-> "CreateOrganization", fresh |-> FreshOrgId, name |-> n])
UpdateOrganization ==
    /\ \E n \in Names \cup {None}, st \in {None, "Suspended"} :
           Issue([type |-> "UpdateOrganization", name |-> n, status |-> st])
DissolveOrganization ==
    /\ Issue([type |-> "DissolveOrganization"])
MergeOrganizations ==
    /\ \E s \in OrgIds, m \in OrgIds :
           Issue([type |-> "MergeOrganizations", surviving_organization_id |-> s,
                  merged_organization_id |-> m])
ChangeOrganizationStatus ==
    /\ \E to \in OrganizationStatus :
           Issue([type |-> "ChangeOrganizationStatus", new_status |-> to])

\* Departments, teams, roles
CreateDepartment ==
    /\ \E d \in DeptIds \ agg.departments : Issue([type |-> "CreateDepartment", fresh |-> d])
DepartmentCommand ==
    /\ \E d \in DeptIds, t \in {"UpdateDepartment", "RestructureDepartment", "DissolveDepartment"} :
           Issue([type |-> t, department_id |-> d])
CreateTeam ==
    /\ \E t \in TeamIds \ agg.teams : Issue([type |-> "CreateTeam", fresh |-> t])
TeamCommand ==
    /\ \E t \in TeamIds, ty \in {"UpdateTeam", "DisbandTeam"} :
           Issue([type |-> ty, team_id |-> t])
CreateRole ==
    /\ \E r \in RoleIds \ agg.roles : Issue([type |-> "CreateRole", fresh |-> r])
RoleCommand ==
    /\ \E r \in RoleIds, ty \in {"UpdateRole", "AssignRole", "VacateRole", "DeprecateRole"} :
           Issue([type |-> ty, role_id |-> r])

\* Members; P: person ids, M: values of role.reports_to, L: role levels,
\* n: the run's bound on applied events
AddMember(P, M, L, n) ==
    /\ \E p \in P, m \in M, l \in L :
           IssueWithin([type |-> "AddMember", person_id |-> p,
                        role |-> OrganizationRole(l, m)], n)
UpdateMemberRole(P, M, L, n) ==
    /\ \E p \in P, m \in M, l \in L :
           IssueWithin([type |-> "UpdateMemberRole", person_id |-> p,
                        new_role |-> OrganizationRole(l, m)], n)
RemoveMember(P, n) ==
    /\ \E p \in P : IssueWithin([type |-> "RemoveMember", person_id |-> p], n)
ChangeReportingRelationship(P, n) ==
    /\ \E p \in P, m \in P :
           IssueWithin([type |-> "ChangeReportingRelationship", subordinate_id |-> p,
                        new_manager_id |-> m], n)

\* Locations
AddLocation ==
    /\ \E l \in LocationIds : Issue([type |-> "AddLocation", location_id |-> l])
ChangePrimaryLocation ==
    /\ \E l \in LocationIds, prev \in PreviousPrimaries(agg) :
           Issue([type |-> "ChangePrimaryLocation", location_id |-> l, previous |-> prev])
RemoveLocation ==
    /\ \E l \in LocationIds : Issue([type |-> "RemoveLocation", location_id |-> l])

\* Hierarchy
AddChildOrganization ==
    /\ \E c \in OrgIds : Issue([type |-> "AddChildOrganization", child_organization_id |-> c])
RemoveChildOrganization ==
    /\ \E c \in OrgIds : Issue([type |-> "RemoveChildOrganization", child_organization_id |-> c])

(***************************************************************************)
(* SpecAggregate: every command variant of aggregate.rs, on an aggregate   *)
(* built by either constructor (empty() or new()).                         *)
(***************************************************************************)
OnePerson == {"p1"}

InitAggregate ==
    /\ agg \in {Empty, New(SelfId, "n0")}
    /\ pending = <<>> /\ pc = "idle" /\ last = NoLast /\ applied = 0
    /\ OthersParked

NextAggregate ==
    \/ CreateOrganization \/ UpdateOrganization \/ DissolveOrganization
    \/ MergeOrganizations \/ ChangeOrganizationStatus
    \/ CreateDepartment \/ DepartmentCommand
    \/ CreateTeam \/ TeamCommand
    \/ CreateRole \/ RoleCommand
    \/ AddMember(OnePerson, {None}, {"Mid"}, MaxEvents)
    \/ UpdateMemberRole(OnePerson, {None}, {"Senior"}, MaxEvents)
    \/ RemoveMember(OnePerson, MaxEvents)
    \/ ChangeReportingRelationship(OnePerson, MaxEvents)
    \/ AddLocation \/ ChangePrimaryLocation \/ RemoveLocation
    \/ AddChildOrganization \/ RemoveChildOrganization
    \/ ApplyPending

SpecAggregate == InitAggregate /\ [][NextAggregate]_vars

(***************************************************************************)
(* SpecMembers: the member commands of aggregate.rs over four persons; the *)
(* manager carried in a role may be any person id or None.                 *)
(***************************************************************************)
Persons == {"pA", "pB", "pC", "pD"}
PersonsOrNone == Persons \cup {None}    \* values of role.reports_to

InitMembers ==
    /\ agg = New(SelfId, "n0")
    /\ pending = <<>> /\ pc = "idle" /\ last = NoLast /\ applied = 0
    /\ OthersParked

NextMembers ==
    \/ AddMember(Persons, PersonsOrNone, {"Mid"}, MaxMemberEvents)
    \/ UpdateMemberRole(Persons, PersonsOrNone, {"Mid"}, MaxMemberEvents)
    \/ RemoveMember(Persons, MaxMemberEvents)
    \/ ChangeReportingRelationship(Persons, MaxMemberEvents)
    \/ ApplyPending

SpecMembers == InitMembers /\ [][NextMembers]_vars

(***************************************************************************)
(* Properties of aggregate.rs                                              *)
(***************************************************************************)

\* The allowed edges of the status state machine, as the specification lists them.
AllowedEdges ==
    {<<"Pending", "Active">>,
     <<"Active", "Inactive">>, <<"Active", "Suspended">>,
     <<"Active", "Dissolved">>, <<"Active", "Merged">>,
     <<"Inactive", "Active">>,
     <<"Suspended", "Active">>, <<"Suspended", "Dissolved">>}

\* C3: over any sequence of accepted commands with their events applied,
\* every change of agg.status follows an allowed edge, and a status of
\* Dissolved or Merged never changes again.
C3_StatusChangesFollowEdges ==
    [][agg'.status # agg.status => <<agg.status, agg'.status>> \in AllowedEdges]_vars

\* C4: a ChangeOrganizationStatus command handled in status `from` succeeds
\* with exactly one OrganizationStatusChanged event iff (from, to) is an
\* allowed edge; otherwise (every from = to included) it is rejected with the
\* invalid-transition error, which aggregate.rs raises as
\* InvalidStructure("Invalid status transition from .. to .."), and yields no event.
C4_StatusTransitionMatrix ==
    (pc = "handled" /\ last.cmd.type = "ChangeOrganizationStatus") =>
        /\ last.ok <=> (<<agg.status, last.cmd.new_status>> \in AllowedEdges)
        /\ last.ok => /\ Len(pending) = 1
                      /\ pending[1].type = "OrganizationStatusChanged"
                      /\ pending[1].new_status = last.cmd.new_status
                      /\ pending[1].previous_status = agg.status
        /\ ~last.ok => (last.err = "InvalidStructure" /\ pending = <<>>)

\* C4 witnesses: a rejected transition out of a terminal status
C4_Witness ==
    /\ pc = "handled" /\ last.cmd.type = "ChangeOrganizationStatus"
    /\ agg.status = "Merged" /\ last.cmd.new_status = "Active"
    /\ ~last.ok /\ last.err = "InvalidStructure"

\* ... and an accepted one out of Suspended.
C4_WitnessAccepted ==
    /\ pc = "handled" /\ last.cmd.type = "ChangeOrganizationStatus"
    /\ agg.status = "Suspended" /\ last.cmd.new_status = "Dissolved" /\ last.ok

\* C8: the version starts at 0 and grows by exactly 1 per applied event,
\* whatever the variant and whether or not the event changes another field:
\* after n apply_event calls, version = n.
C8_VersionCountsEvents == agg.version = applied

\* C8 witness: an event of the catch-all arm has been applied as the second event.
C8_Witness ==
    /\ pc = "idle" /\ last.ok /\ last.cmd.type = "DissolveDepartment"
    /\ applied = 2 /\ agg.version = 2

\* C10: handle_command leaves every field of the aggregate as it found it,
\* for accepted and rejected commands alike, and a rejected command carries
\* an error and no events.
C10_HandleCommandIsPure ==
    [][(pc = "idle" /\ pc' = "handled") =>
          /\ agg' = agg
          /\ (~last'.ok => (pending' = <<>> /\ last'.err # None))
          /\ (last'.ok => (pending' # <<>> /\ last'.err = None))]_vars

\* C10 witness: an AddMember was accepted and the member is not yet in the
\* aggregate (the event is still pending).
C10_Witness ==
    /\ pc = "handled" /\ last.ok /\ last.cmd.type = "AddMember"
    /\ last.cmd.person_id \notin DOMAIN agg.members
    /\ Len(pending) = 1

\* C10 witness for a rejection.
C10_WitnessRejected ==
    /\ pc = "handled" /\ ~last.ok /\ last.cmd.type = "RemoveMember"
    /\ agg.version > 0

(***************************************************************************)
(* The reporting relation among members                                    *)
(***************************************************************************)
\* Direct manager of p, when p is a member with a manager.
ManagerOf(members, p) ==
    IF p \in DOMAIN members /\ members[p].role.reports_to # None
    THEN {members[p].role.reports_to} ELSE {}

\* Everyone above the persons of S, following reports_to through members.
RECURSIVE ManagersAbove(_, _)
ManagersAbove(members, S) ==
    LET T == S \cup UNION {ManagerOf(members, p) : p \in S}
    IN IF T = S THEN S ELSE ManagersAbove(members, T)

\* The management chain of p: its manager, its manager's manager, ...
ManagementChain(members, p) ==
    ManagersAbove(members, ManagerOf(members, p))

NoReportingCycle(members) ==
    \A p \in DOMAIN members : p \notin ManagementChain(members, p)

\* C5: after any sequence of accepted member commands with their events
\* applied, no member is, directly or transitively, their own manager.
C5_NoReportingCycle == (pc = "idle") => NoReportingCycle(agg.members)

\* A, B, C are members, A reports to B and B reports to C.
IsChain(members, A, B, C) ==
    /\ {A, B, C} \subseteq DOMAIN members
    /\ A # B /\ B # C /\ A # C
    /\ members[A].role.reports_to = B
    /\ members[B].role.reports_to = C

Rejected(kind) == ~last.ok /\ last.err = kind /\ pending = <<>>

AcceptedReportingChange(sub, mgr) ==
    /\ last.ok /\ Len(pending) = 1
    /\ pending[1].type = "ReportingRelationshipChanged"
    /\ pending[1].person_id = sub
    /\ pending[1].new_manager_id = mgr

\* C6 as stated: with A -> B -> C, setting C's manager to A or to B is
\* rejected with CircularReference and yields no event, and setting it to
\* any existing member D outside {A, B, C} succeeds with one event.
C6_AsStated ==
    (pc = "handled" /\ last.cmd.type = "ChangeReportingRelationship") =>
        \A A \in Persons, B \in Persons :
            LET C == last.cmd.subordinate_id
                X == last.cmd.new_manager_id
            IN IsChain(agg.members, A, B, C) =>
                 /\ X \in {A, B} => Rejected("CircularReference")
                 /\ (X \in DOMAIN agg.members /\ X \notin {A, B, C})
                        => AcceptedReportingChange(C, X)

\* C6 amended: ... and setting it to an existing member D whose own
\* management chain does not pass through C succeeds with one event.
C6_CycleRejection ==
    (pc = "handled" /\ last.cmd.type = "ChangeReportingRelationship") =>
        \A A \in Persons, B \in Persons :
            LET C == last.cmd.subordinate_id
                X == last.cmd.new_manager_id
            IN IsChain(agg.members, A, B, C) =>
                 /\ X \in {A, B} => Rejected("CircularReference")
                 /\ (/\ X \in DOMAIN agg.members /\ X \notin {A, B, C}
                     /\ C \notin ManagementChain(agg.members, X))
                        => AcceptedReportingChange(C, X)

\* C6 witness: the chain pA -> pB -> pC stands, pD is an unrelated member,
\* and the change of pC's manager to pA has just been rejected.
C6_Witness ==
    /\ pc = "handled" /\ last.cmd.type = "ChangeReportingRelationship"
    /\ IsChain(agg.members, "pA", "pB", "pC")
    /\ "pD" \in DOMAIN agg.members
    /\ last.cmd.subordinate_id = "pC" /\ last.cmd.new_manager_id = "pA"
    /\ Rejected("CircularReference")

\* ... and the change of pC's manager to the unrelated pD has been accepted.
C6_WitnessAccepted ==
    /\ pc = "handled" /\ last.cmd.type = "ChangeReportingRelationship"
    /\ IsChain(agg.members, "pA", "pB", "pC")
    /\ "pD" \in DOMAIN agg.members
    /\ agg.members["pD"].role.reports_to = None
    /\ last.cmd.subordinate_id = "pC" /\ last.cmd.new_manager_id = "pD"
    /\ AcceptedReportingChange("pC", "pD")

(***************************************************************************)
(* aggregate/mod.rs: the aggregate the command handlers of                 *)
(* handlers/command_handler.rs drive.  Its definitions carry the suffix V2 *)
(* where aggregate.rs has one of the same name.                            *)
(***************************************************************************)
OrganizationStatusV2 ==
    {"Active", "Inactive", "Pending", "Merged", "Acquired", "Dissolved", "Archived"}

can_have_members(s) == s \in {"Active", "Pending", "Inactive"}
can_be_modified(s)  == s \in {"Active", "Pending", "Inactive"}

valid_transitions(s) ==
    CASE s = "Pending"  -> {"Active", "Dissolved"}
      [] s = "Active"   -> {"Inactive", "Merged", "Acquired", "Dissolved"}
      [] s = "Inactive" -> {"Active", "Dissolved", "Archived"}
      [] s \in {"Merged", "Acquired", "Dissolved"} -> {"Archived"}
      [] OTHER -> {}

can_transition_to(s, new_status) == new_status \in valid_transitions(s)

NilUuid == "nil"            \* Uuid::default()
BlankNames == {"", " "}     \* names with name.trim().is_empty()

NewV2(id, name) ==
    [id |-> id, name |-> name, status |-> "Pending", parent_id |-> None,
     child_units |-> {}, members |-> EmptyMap, locations |-> {},
     primary_location_id |-> None, version |-> 0]

\* would_create_circular_reporting: walk up from the potential manager.
RECURSIVE CircularReportingWalk(_, _, _, _)
CircularReportingWalk(members, current, visited, person_id) ==
    IF current \notin DOMAIN members THEN FALSE
    ELSE IF current \in visited THEN TRUE
    ELSE IF current = person_id THEN TRUE
    ELSE IF members[current].reports_to = None THEN FALSE
    ELSE CircularReportingWalk(members, members[current].reports_to,
                               visited \cup {current}, person_id)

\* A walk that never reports a cycle.
would_create_circular_reporting_never(a, person_id, potential_manager_id) == FALSE

would_create_circular_reporting(a, person_id, potential_manager_id) ==
    CircularReportingWalk(a.members, potential_manager_id, {}, person_id)

handle_create(a, cmd) ==
    IF cmd.name \in BlankNames THEN Err(a, "InvalidName")
    ELSE Ok(a, << [type |-> "Created", organization_id |-> cmd.organization_id,
                   name |-> cmd.name, parent_id |-> cmd.parent_id,
                   primary_location_id |-> cmd.primary_location_id] >>)

handle_update(a, cmd) ==
    IF ~can_be_modified(a.status) THEN Err(a, "InvalidStatus")
    ELSE IF cmd.name # None /\ cmd.name \in BlankNames THEN Err(a, "InvalidName")
    ELSE Ok(a, << [type |-> "Updated", organization_id |-> a.id, name |-> cmd.name,
                   primary_location_id |-> cmd.primary_location_id] >>)

handle_change_status(a, cmd) ==
    IF ~can_transition_to(a.status, cmd.new_status)
    THEN Err(a, "InvalidStatusTransition")
    ELSE Ok(a, << [type |-> "StatusChanged", organization_id |-> a.id,
                   old_status |-> a.status, new_status |-> cmd.new_status] >>)

handle_add_member(a, cmd) ==
    IF ~can_have_members(a.status) THEN Err(a, "InvalidStatus")
    ELSE IF cmd.person_id \in DOMAIN a.members THEN Err(a, "MemberAlreadyExists")
    ELSE IF cmd.reports_to # None /\ cmd.reports_to \notin DOMAIN a.members
         THEN Err(a, "ManagerNotFound")
    ELSE IF cmd.reports_to # None /\ cmd.reports_to = cmd.person_id
         THEN Err(a, "InvalidReportingRelationship")
    ELSE Ok(a, << [type |-> "MemberAdded", organization_id |-> a.id,
                   member |-> [person_id |-> cmd.person_id, role |-> cmd.role,
                               reports_to |-> cmd.reports_to]] >>)

handle_remove_member(a, cmd) ==
    IF cmd.person_id \notin DOMAIN a.members THEN Err(a, "MemberNotFound")
    ELSE IF \E p \in DOMAIN a.members : a.members[p].reports_to = cmd.person_id
         THEN Err(a, "HasDirectReports")
    ELSE Ok(a, << [type |-> "MemberRemoved", organization_id |-> a.id,
                   person_id |-> cmd.person_id] >>)

handle_update_member_role(a, cmd) ==
    IF cmd.person_id \notin DOMAIN a.members THEN Err(a, "MemberNotFound")
    ELSE Ok(a, << [type |-> "MemberRoleUpdated", organization_id |-> a.id,
                   person_id |-> cmd.person_id,
                   old_role |-> a.members[cmd.person_id].role,
                   new_role |-> cmd.new_role] >>)

handle_change_reporting(a, cmd) ==
    IF cmd.person_id \notin DOMAIN a.members THEN Err(a, "MemberNotFound")
    ELSE IF cmd.new_manager_id # None /\ cmd.new_manager_id \notin DOMAIN a.members
         THEN Err(a, "ManagerNotFound")
    ELSE IF cmd.new_manager_id # None /\ cmd.new_manager_id = cmd.person_id
         THEN Err(a, "InvalidReportingRelationship")
    ELSE IF cmd.new_manager_id # None
            /\ would_create_circular_reporting(a, cmd.person_id, cmd.new_manager_id)
         THEN Err(a, "InvalidReportingRelationship")
    ELSE Ok(a, << [type |-> "ReportingRelationshipChanged", organization_id |-> a.id,
                   person_id |-> cmd.person_id,
                   old_manager_id |-> a.members[cmd.person_id].reports_to,
                   new_manager_id |-> cmd.new_manager_id] >>)

handle_add_child(a, cmd) ==
    IF cmd.child_id = a.id THEN Err(a, "InvalidHierarchy")
    ELSE IF cmd.child_id \in a.child_units THEN Err(a, "ChildAlreadyExists")
    ELSE Ok(a, << [type |-> "ChildOrganizationAdded", parent_id |-> a.id,
                   child_id |-> cmd.child_id] >>)

handle_remove_child(a, cmd) ==
    IF cmd.child_id \notin a.child_units THEN Err(a, "ChildNotFound")
    ELSE Ok(a, << [type |-> "ChildOrganizationRemoved", parent_id |-> a.id,
                   child_id |-> cmd.child_id] >>)

handle_add_location(a, cmd) ==
    IF cmd.location_id \in a.locations THEN Err(a, "LocationAlreadyExists")
    ELSE Ok(a, << [type |-> "LocationAdded", organization_id |-> a.id,
                   location_id |-> cmd.location_id,
                   is_primary |-> (cmd.make_primary \/ a.locations = {})] >>)

\* locations.iter().find(|id| id != removed).copied().unwrap_or_default():
\* HashSet iteration order is unspecified, so any other location may be found.
OtherLocations(a, location_id) ==
    IF a.locations \ {location_id} = {} THEN {NilUuid}
    ELSE a.locations \ {location_id}

handle_remove_location(a, cmd, found) ==
    IF cmd.location_id \notin a.locations THEN Err(a, "LocationNotFound")
    ELSE Ok(a, << [type |-> "LocationRemoved", organization_id |-> a.id,
                   location_id |-> cmd.location_id] >>
               \o IF a.primary_location_id = cmd.location_id
                  THEN << [type |-> "PrimaryLocationChanged", organization_id |-> a.id,
                           old_location_id |-> cmd.location_id,
                           new_location_id |-> found] >>
                  ELSE << >>)

handle_change_primary_location(a, cmd) ==
    IF cmd.new_location_id \notin a.locations THEN Err(a, "LocationNotFound")
    ELSE Ok(a, << [type |-> "PrimaryLocationChanged", organization_id |-> a.id,
                   old_location_id |-> a.primary_location_id,
                   new_location_id |-> cmd.new_location_id] >>)

handle_dissolve(a, cmd) ==
    IF ~can_transition_to(a.status, "Dissolved") THEN Err(a, "InvalidStatus")
    ELSE IF a.child_units # {} THEN Err(a, "HasChildOrganizations")
    ELSE Ok(a, << [type |-> "Dissolved", organization_id |-> a.id] >>)

handle_merge(a, cmd) ==
    IF cmd.source_organization_id = cmd.target_organization_id
    THEN Err(a, "InvalidMerge")
    ELSE Ok(a, << [type |-> "Merged",
                   source_organization_id |-> cmd.source_organization_id,
                   target_organization_id |-> cmd.target_organization_id] >>)

handle_acquire(a, cmd) ==
    IF cmd.acquired_organization_id = cmd.acquiring_organization_id
    THEN Err(a, "InvalidAcquisition")
    ELSE Ok(a, << [type |-> "Acquired",
                   acquired_organization_id |-> cmd.acquired_organization_id,
                   acquiring_organization_id |-> cmd.acquiring_organization_id] >>)

\* handle_command of aggregate/mod.rs; found is the location the iterator of
\* handle_remove_location yields (read by that arm only).
HandleCommandV2(a, cmd, found) ==
    CASE cmd.type = "Create"                      -> handle_create(a, cmd)
      [] cmd.type = "Update"                      -> handle_update(a, cmd)
      [] cmd.type = "ChangeStatus"                -> handle_change_status(a, cmd)
      [] cmd.type = "AddMember"                   -> handle_add_member(a, cmd)
      [] cmd.type = "RemoveMember"                -> handle_remove_member(a, cmd)
      [] cmd.type = "UpdateMemberRole"            -> handle_update_member_role(a, cmd)
      [] cmd.type = "ChangeReportingRelationship" -> handle_change_reporting(a, cmd)
      [] cmd.type = "AddChildOrganization"        -> handle_add_child(a, cmd)
      [] cmd.type = "RemoveChildOrganization"     -> handle_remove_child(a, cmd)
      [] cmd.type = "AddLocation"                 -> handle_add_location(a, cmd)
      [] cmd.type = "RemoveLocation"              -> handle_remove_location(a, cmd, found)
      [] cmd.type = "ChangePrimaryLocation"       -> handle_change_primary_location(a, cmd)
      [] cmd.type = "Dissolve"                    -> handle_dissolve(a, cmd)
      [] cmd.type = "Merge"                       -> handle_merge(a, cmd)
      [] cmd.type = "Acquire"                     -> handle_acquire(a, cmd)

(***************************************************************************)
(* aggregate/mod.rs: apply_event.  One arm per variant, then the version   *)
(* is incremented.                                                         *)
(***************************************************************************)
ApplyArmV2(a, e) ==
    CASE e.type = "Created" ->
            [a EXCEPT !.id = e.organization_id, !.name = e.name,
                      !.parent_id = e.parent_id,
                      !.primary_location_id = e.primary_location_id,
                      !.status = "Active"]
      [] e.type = "Updated" ->
            [a EXCEPT !.name = IF e.name # None THEN e.name ELSE @,
                      !.primary_location_id =
                          IF e.primary_location_id # None
                          THEN e.primary_location_id ELSE @]
      [] e.type = "StatusChanged" -> [a EXCEPT !.status = e.new_status]
      [] e.type = "MemberAdded" ->
            [a EXCEPT !.members =
                Insert(@, e.member.person_id,
                       [role |-> e.member.role, reports_to |-> e.member.reports_to])]
      [] e.type = "MemberRemoved" -> [a EXCEPT !.members = Remove(@, e.person_id)]
      [] e.type = "MemberRoleUpdated" ->
            IF e.person_id \in DOMAIN a.members
            THEN [a EXCEPT !.members[e.person_id].role = e.new_role]
            ELSE a
      [] e.type = "ReportingRelationshipChanged" ->
            IF e.person_id \in DOMAIN a.members
            THEN [a EXCEPT !.members[e.person_id].reports_to = e.new_manager_id]
            ELSE a
      [] e.type = "ChildOrganizationAdded" ->
            [a EXCEPT !.child_units = @ \cup {e.child_id}]
      [] e.type = "ChildOrganizationRemoved" ->
            [a EXCEPT !.child_units = @ \ {e.child_id}]
      [] e.type = "LocationAdded" ->
            [a EXCEPT !.locations = @ \cup {e.location_id},
                      !.primary_location_id =
                          IF e.is_primary THEN e.location_id ELSE @]
      [] e.type = "LocationRemoved" ->
            [a EXCEPT !.locations = @ \ {e.location_id}]
      [] e.type = "PrimaryLocationChanged" ->
            [a EXCEPT !.primary_location_id = e.new_location_id]
      [] e.type = "Dissolved" -> [a EXCEPT !.status = "Dissolved"]
      [] e.type = "Merged"    -> [a EXCEPT !.status = "Merged"]
      [] e.type = "Acquired"  -> [a EXCEPT !.status = "Acquired"]

ApplyEventV2(a, e) == [ApplyArmV2(a, e) EXCEPT !.version = @ + 1]

RECURSIVE ApplyAllV2(_, _)
ApplyAllV2(a, evs) ==
    IF evs = <<>> THEN a ELSE ApplyAllV2(ApplyEventV2(a, Head(evs)), Tail(evs))

(***************************************************************************)
(* handlers/command_handler.rs: InMemoryEventStore and                     *)
(* OrganizationRepository.  store maps an aggregate id to its event        *)
(* vector; save_events extends it under the write lock, load_events        *)
(* clones it under the read lock.                                          *)
(***************************************************************************)
\* save_events that replaces the stored log by the new events.
save_events_replacing(st, aggregate_id, events) ==
    [st EXCEPT ![aggregate_id] = events]

save_events(st, aggregate_id, events) ==
    [st EXCEPT ![aggregate_id] = @ \o events]

load_events(st, aggregate_id) == st[aggregate_id]

\* The loop of OrganizationRepository::load: a Created event starts a new
\* aggregate; any other event is applied only when an aggregate exists.
\* Option<OrganizationAggregate> is a sequence: <<>> is None, <<a>> is Some(a).
RECURSIVE LoadLoop(_, _)
LoadLoop(aggregate, events) ==
    IF events = <<>> THEN aggregate
    ELSE LET e == Head(events) IN
         LoadLoop(IF e.type = "Created"
                  THEN << ApplyEventV2(NewV2(e.organization_id, e.name), e) >>
                  ELSE IF aggregate # <<>> THEN << ApplyEventV2(aggregate[1], e) >>
                  ELSE aggregate,
                  Tail(events))

\* load that answers an empty log with a new, empty aggregate ("found but empty").
LoadFromEmptyAsNew(events) ==
    IF events = <<>> THEN << NewV2(SelfId, "n0") >> ELSE LoadLoop(<<>>, events)

LoadFrom(events) == IF events = <<>> THEN <<>> ELSE LoadLoop(<<>>, events)

load(st, aggregate_id) == LoadFrom(load_events(st, aggregate_id))

save(st, aggregate_id, events) == save_events(st, aggregate_id, events)

(***************************************************************************)
(* handlers/command_handler.rs: OrganizationCommandHandler.  Every method  *)
(* is an async fn called through &self, so calls on several tasks          *)
(* interleave at their awaits.  A call is two steps: the load (one         *)
(* read-locked access to the store), then handle_command on the loaded     *)
(* aggregate with the save of its events (one write-locked access).        *)
(* wk[w] is the call task w is running, and what its last call returned.   *)
(* loaded_version and saved_at record the version the call loaded and the  *)
(* length of the log its save was appended to.                             *)
(***************************************************************************)
MaxLog == 3                 \* events in the store, over all aggregates

Workers == {"w1", "w2"}

IdleWorker ==
    [pc |-> "idle", cmd |-> [type |-> None], aggregate |-> <<>>,
     loaded_version |-> 0, ok |-> FALSE, err |-> None, events |-> <<>>,
     saved_at |-> 0]

VersionOf(opt) == IF opt = <<>> THEN 0 ELSE opt[1].version

RECURSIVE Logged(_, _)
Logged(st, ids) ==
    IF ids = {} THEN 0
    ELSE LET id == CHOOSE x \in ids : TRUE IN Len(st[id]) + Logged(st, ids \ {id})

InFlight == Cardinality({w \in Workers : wk[w].pc # "idle"})

\* The call returns to its caller: Err(err) or Ok(events).
Returned(w, ok, err, events, saved_at) ==
    [wk[w] EXCEPT !.pc = "idle", !.cmd = [type |-> wk[w].cmd.type],
                  !.aggregate = <<>>, !.ok = ok, !.err = err,
                  !.events = events, !.saved_at = saved_at]

Loaded(w, cmd, aggregate, version) ==
    [IdleWorker EXCEPT !.pc = "loaded", !.cmd = cmd, !.aggregate = aggregate,
                       !.loaded_version = version]

CanCall(w) ==
    /\ wk[w].pc = "idle"
    /\ Logged(store, OrgIds) + InFlight < MaxLog

\* handle_create_organization without its existence check.
CallCreateUnchecked(w, cmd) ==
    /\ CanCall(w)
    /\ wk' = [wk EXCEPT ![w] =
                Loaded(w, cmd, << NewV2(cmd.organization_id, cmd.name) >>, 0)]
    /\ UNCHANGED <<store, aggVars, v2Vars, repoVars, sideVars>>

\* handle_create_organization up to its save: the existence check, then the
\* new aggregate.
CallCreate(w, cmd) ==
    /\ CanCall(w)
    /\ LET found == load(store, cmd.organization_id) IN
         wk' = [wk EXCEPT ![w] =
                  IF found # <<>>
                  THEN [Loaded(w, cmd, <<>>, VersionOf(found))
                          EXCEPT !.pc = "idle", !.cmd = [type |-> cmd.type],
                                 !.err = "AlreadyExists"]
                  ELSE Loaded(w, cmd, << NewV2(cmd.organization_id, cmd.name) >>, 0)]
    /\ UNCHANGED <<store, aggVars, v2Vars, repoVars, sideVars>>

\* Every other method up to its save: load, NotFound when nothing is loaded.
CallOn(w, cmd, aggregate_id, then) ==
    /\ CanCall(w)
    /\ LET found == load(store, aggregate_id) IN
         wk' = [wk EXCEPT ![w] =
                  IF found = <<>>
                  THEN [Loaded(w, cmd, <<>>, 0)
                          EXCEPT !.pc = "idle", !.cmd = [type |-> cmd.type],
                                 !.err = "NotFound"]
                  ELSE [Loaded(w, cmd, found, VersionOf(found)) EXCEPT !.pc = then]]
    /\ UNCHANGED <<store, aggVars, v2Vars, repoVars, sideVars>>

\* handle_merge_organizations and handle_acquire_organization load a second
\* aggregate and require it to be Active before they handle the command.
LoadCounterpart(w) ==
    /\ wk[w].pc = "loaded_first"
    /\ LET cmd == wk[w].cmd
           other == IF cmd.type = "Merge" THEN cmd.target_organization_id
                    ELSE cmd.acquired_organization_id
           found == load(store, other) IN
         wk' = [wk EXCEPT ![w] =
                  IF found = <<>> THEN Returned(w, FALSE, "NotFound", <<>>, 0)
                  ELSE IF found[1].status # "Active"
                       THEN Returned(w, FALSE, "InvalidStatus", <<>>, 0)
                  ELSE [wk[w] EXCEPT !.pc = "loaded"]]
    /\ UNCHANGED <<store, aggVars, v2Vars, repoVars, sideVars>>

\* handle_command on the loaded aggregate, then repository.save.
Complete(w) ==
    /\ wk[w].pc = "loaded"
    /\ LET a == wk[w].aggregate[1]
           cmd == wk[w].cmd IN
       \E found \in IF cmd.type = "RemoveLocation"
                    THEN OtherLocations(a, cmd.location_id) ELSE {NilUuid} :
         LET r == HandleCommandV2(a, cmd, found) IN
           IF r.ok
           THEN /\ store' = save(store, r.agg.id, r.events)
                /\ wk' = [wk EXCEPT ![w] =
                            Returned(w, TRUE, None, r.events, Len(store[r.agg.id]))]
           ELSE /\ store' = store
                /\ wk' = [wk EXCEPT ![w] = Returned(w, FALSE, r.err, <<>>, 0)]
    /\ UNCHANGED <<aggVars, v2Vars, repoVars, sideVars>>

\* The methods of OrganizationCommandHandler, over small sets of inputs.
HandlerPersons == {"p1", "p2"}
HandlerRoles   == {"engineer"}
HandlerLocations == {"l1", "l2"}

CallCreateOrganization(w) ==
    /\ \E id \in OrgIds, n \in Names \cup {""} :
           CallCreate(w, [type |-> "Create", organization_id |-> id, name |-> n,
                          parent_id |-> None, primary_location_id |-> None])

CallUpdateOrganization(w) ==
    /\ \E id \in OrgIds, n \in {None, "n2"} :
           CallOn(w, [type |-> "Update", organization_id |-> id, name |-> n,
                      primary_location_id |-> None], id, "loaded")

CallChangeStatus(w) ==
    /\ \E id \in OrgIds, to \in {"Active", "Inactive", "Archived"} :
           CallOn(w, [type |-> "ChangeStatus", organization_id |-> id,
                      new_status |-> to], id, "loaded")

CallAddMember(w) ==
    /\ \E id \in OrgIds, p \in HandlerPersons, r \in HandlerRoles,
          m \in HandlerPersons \cup {None} :
           CallOn(w, [type |-> "AddMember", organization_id |-> id, person_id |-> p,
                      role |-> r, reports_to |-> m], id, "loaded")

CallRemoveMember(w) ==
    /\ \E id \in OrgIds, p \in HandlerPersons :
           CallOn(w, [type |-> "RemoveMember", organization_id |-> id,
                      person_id |-> p], id, "loaded")

CallUpdateMemberRole(w) ==
    /\ \E id \in OrgIds, p \in HandlerPersons :
           CallOn(w, [type |-> "UpdateMemberRole", organization_id |-> id,
                      person_id |-> p, new_role |-> "lead"], id, "loaded")

CallChangeReporting(w) ==
    /\ \E id \in OrgIds, p \in HandlerPersons, m \in HandlerPersons \cup {None} :
           CallOn(w, [type |-> "ChangeReportingRelationship", organization_id |-> id,
                      person_id |-> p, new_manager_id |-> m], id, "loaded")

CallAddLocation(w) ==
    /\ \E id \in OrgIds, l \in HandlerLocations :
           CallOn(w, [type |-> "AddLocation", organization_id |-> id,
                      location_id |-> l, make_primary |-> FALSE], id, "loaded")

CallRemoveLocation(w) ==
    /\ \E id \in OrgIds, l \in HandlerLocations :
           CallOn(w, [type |-> "RemoveLocation", organization_id |-> id,
                      location_id |-> l], id, "loaded")

CallDissolveOrganization(w) ==
    /\ \E id \in OrgIds :
           CallOn(w, [type |-> "Dissolve", organization_id |-> id], id, "loaded")

CallMergeOrganizations(w) ==
    /\ \E src \in OrgIds, tgt \in OrgIds :
           CallOn(w, [type |-> "Merge", source_organization_id |-> src,
                      target_organization_id |-> tgt], src, "loaded_first")

CallAcquireOrganization(w) ==
    /\ \E acquiring \in OrgIds, acquired \in OrgIds :
           CallOn(w, [type |-> "Acquire", acquired_organization_id |-> acquired,
                      acquiring_organization_id |-> acquiring], acquiring, "loaded_first")

\* Variables of aggregate.rs, parked while other components run.
AggregateParked ==
    /\ agg = Empty /\ pending = <<>> /\ pc = "idle" /\ last = NoLast /\ applied = 0

(***************************************************************************)
(* SpecHandlers: two tasks calling the methods of one                      *)
(* OrganizationCommandHandler over one InMemoryEventStore.                 *)
(***************************************************************************)
InitHandlers ==
    /\ store = IdleRepo
    /\ wk = [w \in Workers |-> IdleWorker]
    /\ AggregateParked
    /\ agg2 = None /\ log2 = <<>>
    /\ stream = IdleRepo /\ snapshots = IdleRepo /\ got = <<>>
    /\ SideParked

NextHandlers ==
    \E w \in Workers :
        \/ CallCreateOrganization(w) \/ CallUpdateOrganization(w)
        \/ CallChangeStatus(w)
        \/ CallAddMember(w) \/ CallRemoveMember(w) \/ CallUpdateMemberRole(w)
        \/ CallChangeReporting(w)
        \/ CallAddLocation(w) \/ CallRemoveLocation(w)
        \/ CallDissolveOrganization(w)
        \/ CallMergeOrganizations(w) \/ CallAcquireOrganization(w)
        \/ LoadCounterpart(w)
        \/ Complete(w)

SpecHandlers == InitHandlers /\ [][NextHandlers]_vars

(***************************************************************************)
(* C1: optimistic concurrency of the repository save.  A call whose save   *)
(* succeeded appended its events to the log at the version it had loaded:  *)
(* of two calls that loaded the same version, the second save must fail    *)
(* and append nothing.                                                     *)
(***************************************************************************)
C1_SaveChecksLoadedVersion ==
    \A w \in Workers :
        (wk[w].pc = "idle" /\ wk[w].ok) => wk[w].saved_at = wk[w].loaded_version

(***************************************************************************)
(* C2: concurrent calls on one organization id are serialized.  No log     *)
(* holds two Created events, nor two MemberAdded events for one person     *)
(* with no MemberRemoved for that person between them.                     *)
(***************************************************************************)
AtMostOneCreated(events) ==
    \A i, j \in DOMAIN events :
        (events[i].type = "Created" /\ events[j].type = "Created") => i = j

NoRepeatedMemberAdded(events) ==
    \A i, j \in DOMAIN events :
        (/\ i < j
         /\ events[i].type = "MemberAdded" /\ events[j].type = "MemberAdded"
         /\ events[i].member.person_id = events[j].member.person_id)
        => \E k \in DOMAIN events :
              /\ i < k /\ k < j
              /\ events[k].type = "MemberRemoved"
              /\ events[k].person_id = events[i].member.person_id

C2_CallsAreSerialized ==
    \A id \in OrgIds : AtMostOneCreated(store[id]) /\ NoRepeatedMemberAdded(store[id])

(***************************************************************************)
(* SpecReplay: one aggregate of aggregate/mod.rs driven by handle_command  *)
(* and apply_event, as its tests drive it; log2 is the sequence of events  *)
(* it has emitted, which is what a handler would have saved.               *)
(***************************************************************************)
MaxReplay == 3              \* events emitted by the driven aggregate

Drive(cmd) ==
    /\ Len(log2) < MaxReplay
    /\ \E found \in IF cmd.type = "RemoveLocation"
                    THEN OtherLocations(agg2, cmd.location_id) ELSE {NilUuid} :
         LET r == HandleCommandV2(agg2, cmd, found) IN
           /\ agg2' = ApplyAllV2(r.agg, r.events)
           /\ log2' = log2 \o r.events
    /\ UNCHANGED <<aggVars, hdlVars, repoVars, sideVars>>

DriveCreate ==
    /\ \E id \in OrgIds, n \in Names \cup {" "} :
           Drive([type |-> "Create", organization_id |-> id, name |-> n,
                  parent_id |-> None, primary_location_id |-> None])
DriveUpdate ==
    /\ \E n \in {None, "n2"}, l \in {None, "l1"} :
           Drive([type |-> "Update", organization_id |-> SelfId, name |-> n,
                  primary_location_id |-> l])
DriveChangeStatus ==
    /\ \E to \in {"Active", "Inactive", "Archived"} :
           Drive([type |-> "ChangeStatus", organization_id |-> SelfId, new_status |-> to])
DriveAddMember ==
    /\ \E p \in HandlerPersons, m \in HandlerPersons \cup {None} :
           Drive([type |-> "AddMember", organization_id |-> SelfId, person_id |-> p,
                  role |-> "engineer", reports_to |-> m])
DriveRemoveMember ==
    /\ \E p \in HandlerPersons :
           Drive([type |-> "RemoveMember", organization_id |-> SelfId, person_id |-> p])
DriveUpdateMemberRole ==
    /\ \E p \in HandlerPersons :
           Drive([type |-> "UpdateMemberRole", organization_id |-> SelfId,
                  person_id |-> p, new_role |-> "lead"])
DriveChangeReporting ==
    /\ \E p \in HandlerPersons, m \in HandlerPersons \cup {None} :
           Drive([type |-> "ChangeReportingRelationship", organization_id |-> SelfId,
                  person_id |-> p, new_manager_id |-> m])
DriveAddChild ==
    /\ \E c \in OrgIds :
           Drive([type |-> "AddChildOrganization", parent_id |-> SelfId, child_id |-> c])
DriveRemoveChild ==
    /\ \E c \in OrgIds :
           Drive([type |-> "RemoveChildOrganization", parent_id |-> SelfId, child_id |-> c])
DriveAddLocation ==
    /\ \E l \in HandlerLocations, mp \in BOOLEAN :
           Drive([type |-> "AddLocation", organization_id |-> SelfId,
                  location_id |-> l, make_primary |-> mp])
DriveRemoveLocation ==
    /\ \E l \in HandlerLocations :
           Drive([type |-> "RemoveLocation", organization_id |-> SelfId, location_id |-> l])
DriveChangePrimaryLocation ==
    /\ \E l \in HandlerLocations :
           Drive([type |-> "ChangePrimaryLocation", organization_id |-> SelfId,
                  new_location_id |-> l])
DriveDissolve ==
    /\ Drive([type |-> "Dissolve", organization_id |-> SelfId])
DriveMerge ==
    /\ \E tgt \in OrgIds :
           Drive([type |-> "Merge", source_organization_id |-> SelfId,
                  target_organization_id |-> tgt])
DriveAcquire ==
    /\ \E acquired \in OrgIds :
           Drive([type |-> "Acquire", acquired_organization_id |-> acquired,
                  acquiring_organization_id |-> SelfId])

InitReplay ==
    /\ agg2 = NewV2(SelfId, "n1") /\ log2 = <<>>
    /\ AggregateParked
    /\ store = IdleRepo /\ wk = IdleHandlers
    /\ stream = IdleRepo /\ snapshots = IdleRepo /\ got = <<>>
    /\ SideParked

NextReplay ==
    \/ DriveCreate \/ DriveUpdate \/ DriveChangeStatus
    \/ DriveAddMember \/ DriveRemoveMember \/ DriveUpdateMemberRole
    \/ DriveChangeReporting
    \/ DriveAddChild \/ DriveRemoveChild
    \/ DriveAddLocation \/ DriveRemoveLocation \/ DriveChangePrimaryLocation
    \/ DriveDissolve \/ DriveMerge \/ DriveAcquire

SpecReplay == InitReplay /\ [][NextReplay]_vars

(***************************************************************************)
(* C9: an aggregate rebuilt by the repository's replay of the event log    *)
(* equals the aggregate built incrementally by handle_command followed by  *)
(* apply_event for each emitted event (stated for logs that begin with     *)
(* the Created event, as every log a handler writes does).                 *)
(***************************************************************************)
C9_ReplayEqualsIncremental ==
    (log2 # <<>> /\ log2[1].type = "Created") => LoadFrom(log2) = << agg2 >>

(***************************************************************************)
(* infrastructure/persistence.rs and infrastructure/nats_integration.rs:   *)
(* the repository over the NATS event stream and the snapshot store, and   *)
(* the command handler that serves one command at a time from its          *)
(* subscription.  stream[id] is the sequence of events published for id,   *)
(* snapshots[id] is <<>> or the one snapshot kept for id, got is the       *)
(* result of the last get: <<>> before any, else its id and Ok/Err value.  *)
(***************************************************************************)
MaxStream == 3              \* events published for one aggregate id

snapshot_frequency == 2     \* the repository's constructor argument

append_events(str, aggregate_id, events) ==
    [str EXCEPT ![aggregate_id] = @ \o events]

\* OrganizationRepository::get: <<a>> is Ok(a), <<>> is Err(EntityNotFound).
RepositoryGet(snaps, aggregate_id) ==
    IF snaps[aggregate_id] # <<>> THEN << snaps[aggregate_id][1].aggregate >>
    ELSE <<>>

\* The snapshot store after OrganizationRepository::save of a non-empty batch.
SnapshotsAfterSave(snaps, aggregate_id, events) ==
    LET current == RepositoryGet(snaps, aggregate_id)
        base == IF current # <<>> THEN current[1]
                ELSE New(aggregate_id, "Organization")
        aggregate == ApplyAll(base, events) IN
    IF aggregate.version % snapshot_frequency = 0
    THEN [snaps EXCEPT ![aggregate_id] =
            << [aggregate |-> aggregate, version |-> aggregate.version] >>]
    ELSE snaps

\* OrganizationRepository::save.
RepositorySave(aggregate_id, events) ==
    /\ Len(stream[aggregate_id]) + Len(events) <= MaxStream
    /\ IF events = <<>> THEN UNCHANGED <<stream, snapshots>>
       ELSE /\ stream' = append_events(stream, aggregate_id, events)
            /\ snapshots' = SnapshotsAfterSave(snapshots, aggregate_id, events)
    /\ got' = <<>>
    /\ UNCHANGED <<aggVars, hdlVars, v2Vars, sideVars>>

\* OrganizationCommandHandler::handle_command of nats_integration.rs.
NatsHandleCommand(cmd, aggregate_id) ==
    LET current == RepositoryGet(snapshots, aggregate_id)
        aggregate == IF current # <<>> THEN current[1]
                     ELSE New(aggregate_id, "New Organization")
        r == HandleCommand(aggregate, cmd) IN
      IF r.ok THEN RepositorySave(aggregate_id, r.events)
      ELSE /\ Len(stream[aggregate_id]) < MaxStream
           /\ got' = <<>>
           /\ UNCHANGED <<stream, snapshots, aggVars, hdlVars, v2Vars, sideVars>>

\* CreateOrganization has no aggregate id: the handler takes Uuid::now_v7(),
\* an id nothing was published or snapshotted for.
NatsCreateOrganization ==
    /\ \E id \in OrgIds, n \in Names :
           /\ stream[id] = <<>> /\ snapshots[id] = <<>>
           /\ NatsHandleCommand([type |-> "CreateOrganization", fresh |-> FreshOrgId,
                                 name |-> n], id)
NatsUpdateOrganization ==
    /\ \E id \in OrgIds, n \in Names :
           NatsHandleCommand([type |-> "UpdateOrganization", name |-> n, status |-> None], id)
NatsChangeOrganizationStatus ==
    /\ \E id \in OrgIds, to \in {"Active", "Merged"} :
           NatsHandleCommand([type |-> "ChangeOrganizationStatus", new_status |-> to], id)
NatsDissolveOrganization ==
    /\ \E id \in OrgIds : NatsHandleCommand([type |-> "DissolveOrganization"], id)

\* Batches a caller of the repository saves directly.
StreamEvents ==
    { [type |-> "OrganizationUpdated", name |-> "n1", status |-> None],
      [type |-> "OrganizationStatusChanged", new_status |-> "Active",
       previous_status |-> "Pending"],
      [type |-> "OrganizationDissolved"] }

SaveBatch ==
    /\ \E id \in OrgIds, e1 \in StreamEvents, e2 \in StreamEvents :
           \/ RepositorySave(id, <<>>)
           \/ RepositorySave(id, << e1 >>)
           \/ RepositorySave(id, << e1, e2 >>)

RepositoryGetCall ==
    /\ \E id \in OrgIds :
         got' = << [id |-> id, result |-> RepositoryGet(snapshots, id)] >>
    /\ UNCHANGED <<stream, snapshots, aggVars, hdlVars, v2Vars, sideVars>>

InitPersistence ==
    /\ stream = IdleRepo /\ snapshots = IdleRepo /\ got = <<>>
    /\ SideParked
    /\ AggregateParked
    /\ store = IdleRepo /\ wk = IdleHandlers
    /\ agg2 = None /\ log2 = <<>>

NextPersistence ==
    \/ NatsCreateOrganization \/ NatsUpdateOrganization
    \/ NatsChangeOrganizationStatus \/ NatsDissolveOrganization
    \/ SaveBatch
    \/ RepositoryGetCall

SpecPersistence == InitPersistence /\ [][NextPersistence]_vars

(***************************************************************************)
(* C7: loading an aggregate from the repository returns the fold of its    *)
(* complete event log, whether or not a snapshot exists.                   *)
(***************************************************************************)
C7_LoadIsFoldOfLog ==
    (got # <<>> /\ stream[got[1].id] # <<>>) =>
        got[1].result =
            << ApplyAll(New(got[1].id, "Organization"), stream[got[1].id]) >>

(***************************************************************************)
(* handlers/query_handler.rs: InMemoryReadModelStore and                   *)
(* ProjectionUpdater.  rm.organizations maps an organization id to its     *)
(* OrganizationView, rm.members an organization id to its Vec<MemberView>, *)
(* rm.person_organizations a person id to its Vec<MemberOrganizationView>. *)
(***************************************************************************)
MaxMemberCount == 3         \* member_count of a view

\* Vec: replace the first element the predicate key selects, else push.
RECURSIVE ReplaceFirst(_, _, _, _)
ReplaceFirst(vec, field, key, item) ==
    IF vec = <<>> THEN <<>>
    ELSE IF Head(vec)[field] = key THEN << item >> \o Tail(vec)
    ELSE << Head(vec) >> \o ReplaceFirst(Tail(vec), field, key, item)

UpdateOrPush(vec, field, key, item) ==
    IF \E i \in DOMAIN vec : vec[i][field] = key
    THEN ReplaceFirst(vec, field, key, item)
    ELSE Append(vec, item)

\* Vec::retain(|m| m.field != key)
RECURSIVE Retain(_, _, _)
Retain(vec, field, key) ==
    IF vec = <<>> THEN <<>>
    ELSE IF Head(vec)[field] = key THEN Retain(Tail(vec), field, key)
    ELSE << Head(vec) >> \o Retain(Tail(vec), field, key)

\* HashMap::entry(k).or_insert_with(Vec::new)
EntryOrEmpty(m, k) == IF k \in DOMAIN m THEN m[k] ELSE <<>>

calculate_size_category(member_count) ==
    IF member_count <= 10 THEN "Small"
    ELSE IF member_count <= 50 THEN "Medium"
    ELSE IF member_count <= 200 THEN "Large"
    ELSE "Enterprise"

update_organization(r, view) ==
    [r EXCEPT !.organizations = Insert(@, view.organization_id, view)]

update_member(r, org_id, member) ==
    LET org_members == UpdateOrPush(EntryOrEmpty(r.members, org_id),
                                    "person_id", member.person_id, member)
        person_memberships == EntryOrEmpty(r.person_organizations, member.person_id)
        membership == [organization_id |-> org_id,
                       organization_name |-> r.organizations[org_id].name,
                       role |-> member.role, is_primary |-> TRUE]
    IN [r EXCEPT
          !.members = Insert(@, org_id, org_members),
          !.person_organizations =
              Insert(@, member.person_id,
                     IF org_id \in DOMAIN r.organizations
                     THEN UpdateOrPush(person_memberships, "organization_id",
                                       org_id, membership)
                     ELSE person_memberships)]

remove_member(r, org_id, person_id) ==
    [r EXCEPT
       !.members = IF org_id \in DOMAIN @
                   THEN [@ EXCEPT ![org_id] = Retain(@, "person_id", person_id)]
                   ELSE @,
       !.person_organizations =
                   IF person_id \in DOMAIN @
                   THEN [@ EXCEPT ![person_id] = Retain(@, "organization_id", org_id)]
                   ELSE @]

\* The member count and size category update that follows update_member
\* and remove_member, when the organization has a view.
WithMemberCount(r, org_id, count) ==
    IF org_id \in DOMAIN r.organizations
    THEN update_organization(r,
            [r.organizations[org_id] EXCEPT
                !.member_count = count,
                !.size_category = calculate_size_category(count)])
    ELSE r

SaturatingSub(n, k) == IF n >= k THEN n - k ELSE 0

\* ProjectionUpdater::handle_event
handle_event(r, e) ==
    CASE e.type = "Created" ->
            update_organization(r,
                [organization_id |-> e.organization_id, name |-> e.name,
                 status |-> "Active", parent_id |-> e.parent_id,
                 child_units |-> <<>>,
                 member_count |-> 0, size_category |-> "Small"])
      [] e.type = "MemberAdded" ->
            LET r1 == update_member(r, e.organization_id,
                        [person_id |-> e.member.person_id, role |-> e.member.role,
                         reports_to_id |-> e.member.reports_to,
                         direct_reports_count |-> 0, is_active |-> TRUE])
            IN IF e.organization_id \in DOMAIN r1.organizations
               THEN WithMemberCount(r1, e.organization_id,
                        r1.organizations[e.organization_id].member_count + 1)
               ELSE r1
      [] e.type = "MemberRemoved" ->
            LET r1 == remove_member(r, e.organization_id, e.person_id)
            IN IF e.organization_id \in DOMAIN r1.organizations
               THEN WithMemberCount(r1, e.organization_id,
                        SaturatingSub(r1.organizations[e.organization_id].member_count, 1))
               ELSE r1
      [] OTHER -> r

(***************************************************************************)
(* SpecProjection: events delivered to one ProjectionUpdater, in any order *)
(* and any number of times (the transport delivers at least once).         *)
(***************************************************************************)
Deliver(e) ==
    /\ \A o \in DOMAIN rm.organizations :
          rm.organizations[o].member_count < MaxMemberCount
    /\ rm' = handle_event(rm, e)
    /\ UNCHANGED <<aggVars, hdlVars, v2Vars, repoVars, fleet, saved, nats, org, tasks, locks>>

CreatedEvents ==
    { [type |-> "Created", organization_id |-> o, name |-> n,
       parent_id |-> None, primary_location_id |-> None] :
        o \in OrgIds, n \in Names }

MemberAddedEvents ==
    { [type |-> "MemberAdded", organization_id |-> o,
       member |-> [person_id |-> p, role |-> r, reports_to |-> None]] :
        o \in {SelfId}, p \in HandlerPersons, r \in {"engineer", "lead"} }

MemberRemovedEvents ==
    { [type |-> "MemberRemoved", organization_id |-> o, person_id |-> p] :
        o \in {SelfId}, p \in HandlerPersons }

DeliverCreated       ==
    /\ \E e \in CreatedEvents : Deliver(e)
DeliverMemberAdded   ==
    /\ \E e \in MemberAddedEvents : Deliver(e)
DeliverMemberRemoved ==
    /\ \E e \in MemberRemovedEvents : Deliver(e)
DeliverOther ==
    /\ Deliver([type |-> "StatusChanged", organization_id |-> SelfId,
                old_status |-> "Active", new_status |-> "Inactive"])

InitProjection ==
    /\ rm = NewReadModel /\ fleet = EmptyMap /\ saved = <<>>
    /\ nats = None /\ org = None /\ tasks = None /\ locks = None
    /\ AggregateParked
    /\ store = IdleRepo /\ wk = IdleHandlers
    /\ agg2 = None /\ log2 = <<>>
    /\ stream = IdleRepo /\ snapshots = IdleRepo /\ got = <<>>

NextProjection ==
    \/ DeliverCreated \/ DeliverMemberAdded \/ DeliverMemberRemoved \/ DeliverOther

SpecProjection == InitProjection /\ [][NextProjection]_vars

(***************************************************************************)
(* C11: ProjectionUpdater.handle_event is idempotent under duplicate       *)
(* delivery: in every read-model state, handling any event twice leaves    *)
(* the read model as handling it once does.                                *)
(***************************************************************************)
C11_HandleEventIdempotent ==
    \A e \in CreatedEvents \cup MemberAddedEvents \cup MemberRemovedEvents :
        handle_event(handle_event(rm, e), e) = handle_event(rm, e)

(***************************************************************************)
(* SpecLocations: the location commands of aggregate.rs over three         *)
(* locations, each command followed by apply_event of its events.          *)
(***************************************************************************)
MaxLocationEvents == 5
ManyLocations == {"l1", "l2", "l3"}

AddLocationAmong ==
    /\ \E l \in ManyLocations :
           IssueWithin([type |-> "AddLocation", location_id |-> l], MaxLocationEvents)
ChangePrimaryLocationAmong ==
    /\ \E l \in ManyLocations, prev \in PreviousPrimaries(agg) :
           IssueWithin([type |-> "ChangePrimaryLocation", location_id |-> l,
                        previous |-> prev], MaxLocationEvents)
RemoveLocationAmong ==
    /\ \E l \in ManyLocations :
           IssueWithin([type |-> "RemoveLocation", location_id |-> l], MaxLocationEvents)

InitLocations ==
    /\ agg = New(SelfId, "n0")
    /\ pending = <<>> /\ pc = "idle" /\ last = NoLast /\ applied = 0
    /\ OthersParked

NextLocations ==
    \/ AddLocationAmong \/ ChangePrimaryLocationAmong \/ RemoveLocationAmong
    \/ ApplyPending

SpecLocations == InitLocations /\ [][NextLocations]_vars

\* The locations of a that carry is_primary = true.
Primaries(a) == {l \in DOMAIN a.locations : a.locations[l].is_primary}

\* C12: after any sequence of accepted AddLocation, ChangePrimaryLocation and
\* RemoveLocation commands with their events applied, at most one location
\* of the aggregate has is_primary = true.
C12_AtMostOnePrimary == Cardinality(Primaries(agg)) <= 1

\* C12 witness: the primary was moved between two locations and one of them
\* is primary.
C12_Witness ==
    /\ pc = "idle" /\ last.ok /\ last.cmd.type = "ChangePrimaryLocation"
    /\ Cardinality(DOMAIN agg.locations) >= 2
    /\ Cardinality(Primaries(agg)) = 1
    /\ agg.version >= 3

\* C13: AddLocation on an aggregate without locations yields a primary
\* location; AddLocation on an aggregate that has locations yields a
\* non-primary one and leaves the set of primaries as it was; RemoveLocation
\* of the current primary leaves the aggregate with no primary (aggregate.rs
\* reassigns nothing).
C13_PrimaryPolicy ==
    [][(pc = "handled" /\ pc' = "idle" /\ last.ok) =>
          /\ (last.cmd.type = "AddLocation" /\ DOMAIN agg.locations = {}) =>
                Primaries(agg') = {last.cmd.location_id}
          /\ (last.cmd.type = "AddLocation" /\ DOMAIN agg.locations # {}) =>
                /\ last.cmd.location_id \in DOMAIN agg'.locations
                /\ ~agg'.locations[last.cmd.location_id].is_primary
                /\ Primaries(agg') = Primaries(agg)
          /\ (last.cmd.type = "RemoveLocation"
                /\ last.cmd.location_id \in Primaries(agg)) =>
                /\ Primaries(agg') = {}
                /\ DOMAIN agg'.locations = DOMAIN agg.locations \ {last.cmd.location_id}]_vars

\* C13 witness: the primary location was removed while another location
\* remained, and no location is primary.
C13_Witness ==
    /\ pc = "idle" /\ last.ok /\ last.cmd.type = "RemoveLocation"
    /\ DOMAIN agg.locations # {}
    /\ Primaries(agg) = {}

\* C13 witness: a location was added next to an existing primary.
C13_WitnessSecond ==
    /\ pc = "idle" /\ last.ok /\ last.cmd.type = "AddLocation"
    /\ Cardinality(DOMAIN agg.locations) = 2
    /\ Cardinality(Primaries(agg)) = 1

(***************************************************************************)
(* SpecFleet: several organization aggregates side by side, each held in   *)
(* both forms (aggregate.rs and aggregate/mod.rs), as in                   *)
(* test_organization_hierarchy: AddChildOrganization is handled by the     *)
(* parent aggregate alone and its event applied to the parent.             *)
(***************************************************************************)
MaxFleetEvents == 2
FleetIds == {"o1", "o2", "o3"}

NewFleet == [id \in FleetIds |-> [v1 |-> New(id, "n0"), v2 |-> NewV2(id, "n0")]]

\* aggregate.rs: company.handle_command(AddChildOrganization) and apply_event.
FleetAddChildOrganization ==
    /\ \E parent \in FleetIds, child \in FleetIds :
           LET a == fleet[parent].v1
               r == HandleCommand(a, [type |-> "AddChildOrganization",
                                      parent_organization_id |-> parent,
                                      child_organization_id |-> child])
           IN /\ a.version < MaxFleetEvents
              /\ r.ok
              /\ fleet' = [fleet EXCEPT ![parent].v1 = ApplyAll(r.agg, r.events)]
              /\ UNCHANGED <<aggVars, hdlVars, v2Vars, repoVars, rm, saved, nats, org, tasks, locks>>

\* aggregate/mod.rs: handle_command(AddChildOrganization) and apply_event.
FleetAddChild ==
    /\ \E parent \in FleetIds, child \in FleetIds :
           LET a == fleet[parent].v2
               r == HandleCommandV2(a, [type |-> "AddChildOrganization",
                                        organization_id |-> parent,
                                        child_id |-> child], NilUuid)
           IN /\ a.version < MaxFleetEvents
              /\ r.ok
              /\ fleet' = [fleet EXCEPT ![parent].v2 = ApplyAllV2(r.agg, r.events)]
              /\ UNCHANGED <<aggVars, hdlVars, v2Vars, repoVars, rm, saved, nats, org, tasks, locks>>

\* A rejected AddChildOrganization changes nothing.
FleetRejected ==
    /\ \E parent \in FleetIds, child \in FleetIds :
          \/ ~HandleCommand(fleet[parent].v1,
                            [type |-> "AddChildOrganization",
                             parent_organization_id |-> parent,
                             child_organization_id |-> child]).ok
          \/ ~HandleCommandV2(fleet[parent].v2,
                              [type |-> "AddChildOrganization",
                               organization_id |-> parent, child_id |-> child],
                              NilUuid).ok
    /\ UNCHANGED vars

InitFleet ==
    /\ AggregateParked
    /\ store = IdleRepo /\ wk = IdleHandlers
    /\ agg2 = None /\ log2 = <<>>
    /\ stream = IdleRepo /\ snapshots = IdleRepo /\ got = <<>>
    /\ rm = NewReadModel /\ saved = <<>>
    /\ nats = None /\ org = None /\ tasks = None /\ locks = None
    /\ fleet = NewFleet

NextFleet == FleetAddChildOrganization \/ FleetAddChild \/ FleetRejected

SpecFleet == InitFleet /\ [][NextFleet]_vars

\* Parent-child edges recorded by the aggregates of one form.
ChildEdges(form) ==
    {<<p, c>> \in FleetIds \X FleetIds :
        c \in (IF form = "v1" THEN fleet[p].v1.child_organizations
                              ELSE fleet[p].v2.child_units)}

\* Organizations reachable from p along at most n parent-child edges.
RECURSIVE Descendants(_, _, _)
Descendants(edges, p, n) ==
    IF n = 0 THEN {}
    ELSE LET direct == {c \in FleetIds : <<p, c>> \in edges}
         IN direct \cup UNION {Descendants(edges, c, n - 1) : c \in direct}

IsAcyclic(edges) ==
    \A p \in FleetIds : p \notin Descendants(edges, p, Cardinality(FleetIds))

\* C14: across the organization aggregates, after any sequence of accepted
\* AddChildOrganization commands, no organization is its own ancestor in the
\* parent-child relation.
C14_HierarchyAcyclic == IsAcyclic(ChildEdges("v1")) /\ IsAcyclic(ChildEdges("v2"))

(***************************************************************************)
(* SpecAppend: OrganizationRepository::save over a JetStream publish that  *)
(* may fail.  append_events publishes the batch one event at a time and    *)
(* returns at the first publish error (as publish_batch of the event       *)
(* publisher adapter does); what was published before stays in the stream. *)
(***************************************************************************)
MaxAppend == 2              \* events published for one aggregate id

\* The stream after append_events whose first `published` publishes succeed.
append_events_until(str, aggregate_id, events, published) ==
    [str EXCEPT ![aggregate_id] = @ \o SubSeq(events, 1, published)]

\* OrganizationRepository::save, with the number of publishes that succeed;
\* `saved` keeps the call and its result for the caller.
RepositorySaveOutcome(aggregate_id, events, published) ==
    LET ok == published = Len(events) IN
    /\ Len(stream[aggregate_id]) + Len(events) <= MaxAppend
    /\ stream' = append_events_until(stream, aggregate_id, events, published)
    /\ snapshots' = IF ok /\ events # <<>>
                    THEN SnapshotsAfterSave(snapshots, aggregate_id, events)
                    ELSE snapshots
    /\ saved' = << [aggregate_id |-> aggregate_id, events |-> events,
                    before |-> stream[aggregate_id], ok |-> ok] >>
    /\ got' = <<>>
    /\ UNCHANGED <<aggVars, hdlVars, v2Vars, rm, fleet, nats, org, tasks, locks>>

SaveBatchOutcome ==
    /\ \E id \in OrgIds, e1 \in StreamEvents, e2 \in StreamEvents :
           \E events \in {<<>>, << e1 >>, << e1, e2 >>} :
               \E published \in 0..Len(events) :
                   RepositorySaveOutcome(id, events, published)

NextAppend == SaveBatchOutcome \/ RepositoryGetCall

SpecAppend == InitPersistence /\ [][NextAppend]_vars

\* C15: appending a batch is all-or-nothing: when a save fails part-way
\* (a publish error on the k-th event), none of the batch's events are in
\* the log afterwards.
C15_BatchAllOrNothing ==
    (saved # <<>> /\ ~saved[1].ok) =>
        stream[saved[1].aggregate_id] = saved[1].before

(***************************************************************************)
(* SpecHandlersSerial: the methods of one OrganizationCommandHandler       *)
(* called one after the other, each call awaited before the next.          *)
(***************************************************************************)
NextHandlersSerial ==
    \/ CallCreateOrganization("w1") \/ CallUpdateOrganization("w1")
    \/ CallChangeStatus("w1")
    \/ CallAddMember("w1") \/ CallRemoveMember("w1") \/ CallUpdateMemberRole("w1")
    \/ CallChangeReporting("w1")
    \/ CallAddLocation("w1") \/ CallRemoveLocation("w1")
    \/ CallDissolveOrganization("w1")
    \/ CallMergeOrganizations("w1") \/ CallAcquireOrganization("w1")
    \/ LoadCounterpart("w1")
    \/ Complete("w1")

SpecHandlersSerial == InitHandlers /\ [][NextHandlersSerial]_vars

\* The id a handler method loads first.
TargetOf(cmd) ==
    CASE cmd.type = "Merge"   -> cmd.source_organization_id
      [] cmd.type = "Acquire" -> cmd.acquiring_organization_id
      [] OTHER                -> cmd.organization_id

\* The id handle_merge_organizations / handle_acquire_organization load second.
CounterpartOf(cmd) ==
    IF cmd.type = "Merge" THEN cmd.target_organization_id
    ELSE cmd.acquired_organization_id

\* w starts a call in this step (and the call may return in the same step).
Starts(w) == wk[w].pc = "idle" /\ wk'[w] # wk[w]

\* C16: load returns None for an id whose log holds no event, and a
\* non-create method of OrganizationCommandHandler called for such an id
\* returns NotFound and leaves the event store unchanged: a call gets past
\* its load only when the log it loaded is non-empty, a call that returns
\* from its load returns NotFound, and neither changes the store.
C16_NotFoundForEmptyLog ==
    /\ \A id \in OrgIds : load([i \in OrgIds |-> <<>>], id) = <<>>
    /\ [][/\ \A id \in OrgIds : store[id] = <<>> => load(store, id) = <<>>
          /\ \A w \in Workers :
               /\ (Starts(w) /\ wk'[w].cmd.type # "Create") =>
                     /\ store' = store
                     /\ IF wk'[w].pc = "idle"
                        THEN /\ ~wk'[w].ok /\ wk'[w].err = "NotFound"
                             /\ wk'[w].events = <<>>
                        ELSE store[TargetOf(wk'[w].cmd)] # <<>>
               /\ (wk[w].pc = "loaded_first"
                     /\ store[CounterpartOf(wk[w].cmd)] = <<>>) =>
                     /\ store' = store
                     /\ wk'[w].pc = "idle" /\ ~wk'[w].ok
                     /\ wk'[w].err = "NotFound"]_vars

\* C16 witness: one organization exists, the other has an empty log, and an
\* AddMember call has just returned NotFound.
C16_Witness ==
    /\ store[SelfId] # <<>> /\ store[OtherOrg] = <<>>
    /\ wk["w1"].pc = "idle" /\ wk["w1"].cmd.type = "AddMember"
    /\ ~wk["w1"].ok /\ wk["w1"].err = "NotFound"

\* aggregate.rs aggregates that hold an organization: built by new(), or by
\* empty() with an accepted CreateOrganization applied.
HoldingOrganization ==
    {New(SelfId, "n0")} \cup
    {ApplyAll(Empty, HandleCreateOrganization(Empty,
                [type |-> "CreateOrganization", fresh |-> FreshOrgId,
                 name |-> n]).events) : n \in Names}

\* C17: handle_create_organization for an id whose log already holds events
\* returns AlreadyExists and appends nothing (a create call gets past its
\* check only when the log is empty), and an aggregate.rs aggregate that
\* holds an organization rejects CreateOrganization with no event.
C17_DuplicateCreateRejected ==
    /\ \A a \in HoldingOrganization, n \in Names :
          LET r == HandleCommand(a, [type |-> "CreateOrganization",
                                     fresh |-> FreshOrgId, name |-> n])
          IN a.organization.present /\ ~r.ok /\ r.events = <<>> /\ r.agg = a
    /\ [][\A w \in Workers :
            (Starts(w) /\ wk'[w].cmd.type = "Create") =>
                /\ store' = store
                /\ IF wk'[w].pc = "idle"
                   THEN /\ ~wk'[w].ok /\ wk'[w].err = "AlreadyExists"
                        /\ wk'[w].events = <<>>
                        /\ \E id \in OrgIds : store[id] # <<>>
                   ELSE store[wk'[w].cmd.organization_id] = <<>>]_vars

\* C17 witness: a create call for an existing organization has returned
\* AlreadyExists and the log holds its single Created event.
C17_Witness ==
    /\ wk["w1"].pc = "idle" /\ wk["w1"].cmd.type = "Create"
    /\ ~wk["w1"].ok /\ wk["w1"].err = "AlreadyExists"
    /\ Len(store[SelfId]) = 1 /\ store[SelfId][1].type = "Created"
    /\ store[OtherOrg] = <<>>

(***************************************************************************)
(* SpecStore: the two in-memory event stores called directly.  `store` is  *)
(* the HashMap<Uuid, Vec<OrganizationEvent>> of command_handler.rs, `log2` *)
(* the Vec<ComponentDataEvent> of infrastructure/event_store.rs; `saved`   *)
(* keeps the last writing call and the contents it found.                  *)
(***************************************************************************)
MaxStored == 3              \* events held by the two stores together

\* infrastructure/event_store.rs: InMemoryEventStore::append / get_events.
append(events, event) == Append(events, event)
get_events(events) == events

StoredEvents ==
    { [type |-> "Created", organization_id |-> SelfId, name |-> "n1",
       parent_id |-> None, primary_location_id |-> None],
      [type |-> "MemberAdded", organization_id |-> SelfId,
       member |-> [person_id |-> "p1", role |-> "engineer", reports_to |-> None]] }

Stored == Logged(store, OrgIds) + Len(log2)

SaveEventsCall ==
    /\ \E id \in OrgIds, e1 \in StoredEvents, e2 \in StoredEvents :
           \E events \in {<<>>, << e1 >>, << e1, e2 >>} :
               /\ Stored + Len(events) <= MaxStored
               /\ store' = save_events(store, id, events)
               /\ saved' = << [op |-> "save_events", aggregate_id |-> id,
                               events |-> events, before |-> store] >>
               /\ got' = <<>>
               /\ UNCHANGED <<aggVars, wk, v2Vars, stream, snapshots, rm, fleet, nats, org, tasks, locks>>

LoadEventsCall ==
    /\ \E id \in OrgIds :
         got' = << [id |-> id, result |-> load_events(store, id)] >>
    /\ UNCHANGED <<aggVars, hdlVars, v2Vars, stream, snapshots, sideVars>>

AppendCall ==
    /\ \E e \in StoredEvents :
           /\ Stored < MaxStored
           /\ log2' = append(log2, e)
           /\ saved' = << [op |-> "append", event |-> e, before |-> log2] >>
           /\ got' = <<>>
           /\ UNCHANGED <<aggVars, hdlVars, agg2, stream, snapshots, rm, fleet, nats, org, tasks, locks>>

NextStore == SaveEventsCall \/ LoadEventsCall \/ AppendCall

SpecStore == InitPersistence /\ [][NextStore]_vars

\* C18: the per-aggregate log is append-only and ordered.  After a
\* save_events(id, events) call, load_events(id) is what the log held before
\* followed by events in the order given, and every other id's log is what it
\* was; a load_events call returns the stored log and changes nothing; the
\* event vector of event_store.rs grows by exactly the appended event.
C18_LogAppendOnly ==
    /\ saved # <<>> =>
          IF saved[1].op = "save_events"
          THEN /\ load_events(store, saved[1].aggregate_id) =
                    saved[1].before[saved[1].aggregate_id] \o saved[1].events
               /\ \A other \in OrgIds \ {saved[1].aggregate_id} :
                    load_events(store, other) = saved[1].before[other]
          ELSE get_events(log2) = saved[1].before \o << saved[1].event >>
    /\ got # <<>> => got[1].result = store[got[1].id]

\* C18 witness: a batch of two different events was saved behind an earlier
\* event of the same id.
C18_Witness ==
    /\ saved # <<>> /\ saved[1].op = "save_events"
    /\ Len(saved[1].events) = 2
    /\ saved[1].events[1] # saved[1].events[2]
    /\ saved[1].before[saved[1].aggregate_id] # <<>>
    /\ Len(store[saved[1].aggregate_id]) = 3

(***************************************************************************)
(* The catch-all arm of apply_event_pure                                   *)
(***************************************************************************)
\* The variants of OrganizationEvent that apply_event_pure has no arm for.
CatchAllEvents ==
    {"DepartmentUpdated", "DepartmentRestructured", "DepartmentDissolved",
     "TeamUpdated", "TeamDisbanded", "RoleUpdated", "RoleDeprecated",
     "FacilityCreated", "FacilityUpdated", "FacilityRemoved"}

\* C19: applying an event variant that apply_event_pure has no dedicated arm
\* for (DepartmentUpdated, DepartmentDissolved, TeamDisbanded, RoleUpdated,
\* ...) leaves every field of the aggregate except version unchanged, both
\* for any such event applied to a reachable aggregate and for the events
\* the commands actually produce.
C19_CatchAllKeepsFields ==
    /\ [](\A t \in CatchAllEvents, d \in DeptIds, tm \in TeamIds, ro \in RoleIds :
            ApplyEvent(agg, [type |-> t, department_id |-> d, team_id |-> tm,
                             role_id |-> ro])
                = [agg EXCEPT !.version = @ + 1])
    /\ [][(pc = "handled" /\ pc' = "idle" /\ Len(pending) = 1
             /\ pending[1].type \in CatchAllEvents) =>
                agg' = [agg EXCEPT !.version = @ + 1]]_vars

\* C19 witness: DepartmentDissolved was applied and the department is still
\* in the aggregate.
C19_Witness ==
    /\ pc = "idle" /\ last.ok /\ last.cmd.type = "DissolveDepartment"
    /\ agg.departments # {}
    /\ agg.version = 2

\* C20: once an aggregate/mod.rs aggregate has been created (a Created event
\* has been applied to it), its id never changes, whatever commands are
\* accepted by handle_command and applied by apply_event afterwards.
C20_IdNeverChanges ==
    [][(\E i \in 1..Len(log2) : log2[i].type = "Created") =>
          agg2'.id = agg2.id]_vars

\* C21: with snapshot frequency N, once successful saves have put k >= N
\* events into the log of an aggregate id, the snapshot store holds a snapshot
\* for that id whose version is at least N * floor(k / N) and whose state is
\* the fold of the first `version` events of that log.
C21_SnapshotCoversLog ==
    \A id \in OrgIds :
        LET k == Len(stream[id]) IN
        k >= snapshot_frequency =>
            /\ snapshots[id] # <<>>
            /\ snapshots[id][1].version >=
                   snapshot_frequency * (k \div snapshot_frequency)
            /\ snapshots[id][1].version <= k
            /\ snapshots[id][1].aggregate =
                   ApplyAll(New(id, "Organization"),
                            SubSeq(stream[id], 1, snapshots[id][1].version))

(***************************************************************************)
(* SpecProjected: one aggregate/mod.rs aggregate driven by commands, with  *)
(* every emitted event handled once, in log order, by a ProjectionUpdater. *)
(***************************************************************************)
\* handle_event for each event of a batch, in order.
RECURSIVE HandleEvents(_, _)
HandleEvents(r, evs) ==
    IF evs = <<>> THEN r
    ELSE HandleEvents(handle_event(r, Head(evs)), Tail(evs))

ProjectedCommands ==
    { [type |-> "Create", organization_id |-> SelfId, name |-> "n1",
       parent_id |-> None, primary_location_id |-> None] }
    \cup { [type |-> "ChangeStatus", organization_id |-> SelfId, new_status |-> to] :
              to \in {"Inactive", "Active"} }
    \cup { [type |-> "AddMember", organization_id |-> SelfId, person_id |-> p,
            role |-> "engineer", reports_to |-> None] : p \in HandlerPersons }
    \cup { [type |-> "RemoveMember", organization_id |-> SelfId, person_id |-> p] :
              p \in HandlerPersons }
    \cup { [type |-> "UpdateMemberRole", organization_id |-> SelfId,
            person_id |-> p, new_role |-> "lead"] : p \in HandlerPersons }
    \cup { [type |-> "ChangeReportingRelationship", organization_id |-> SelfId,
            person_id |-> p, new_manager_id |-> m] :
              p \in HandlerPersons, m \in HandlerPersons }
    \cup { [type |-> "AddChildOrganization", parent_id |-> SelfId, child_id |-> OtherOrg] }

MaxProjected == 4           \* events emitted by the driven aggregate

DriveProjected ==
    /\ \E cmd \in ProjectedCommands :
           LET r == HandleCommandV2(agg2, cmd, NilUuid) IN
             /\ Len(log2) < MaxProjected
             /\ r.ok
             /\ agg2' = ApplyAllV2(r.agg, r.events)
             /\ log2' = log2 \o r.events
             /\ rm' = HandleEvents(rm, r.events)
             /\ UNCHANGED <<aggVars, hdlVars, repoVars, fleet, saved, nats, org, tasks, locks>>

InitProjected ==
    /\ agg2 = NewV2(SelfId, "n1") /\ log2 = <<>>
    /\ rm = NewReadModel /\ fleet = EmptyMap /\ saved = <<>>
    /\ nats = None /\ org = None /\ tasks = None /\ locks = None
    /\ AggregateParked
    /\ store = IdleRepo /\ wk = IdleHandlers
    /\ stream = IdleRepo /\ snapshots = IdleRepo /\ got = <<>>

NextProjected == DriveProjected

SpecProjected == InitProjected /\ [][NextProjected]_vars

\* The elements of a Vec, as a set.
Elements(vec) == {vec[i] : i \in DOMAIN vec}

\* C22: after the ProjectionUpdater has handled every event of the log once
\* and in order, the read model agrees with the aggregate replayed from the
\* same log: the view's status and child units, the set of member views, and
\* each member view's role and reports_to are the aggregate's.
C22_ReadModelAgrees ==
    (log2 # <<>> /\ log2[1].type = "Created"
        /\ agg2.id \in DOMAIN rm.organizations) =>
        LET a == ApplyAllV2(NewV2(SelfId, "n1"), log2)
            view == rm.organizations[agg2.id]
            views == Elements(EntryOrEmpty(rm.members, agg2.id)) IN
        /\ a = agg2
        /\ view.status = a.status
        /\ Elements(view.child_units) = a.child_units
        /\ {m.person_id : m \in views} = DOMAIN a.members
        /\ \A m \in views :
              m.person_id \in DOMAIN a.members =>
                /\ m.role = a.members[m.person_id].role
                /\ m.reports_to_id = a.members[m.person_id].reports_to

\* C23: no accepted command of aggregate.rs is a silent no-op: whenever
\* handle_command returns events (for UpdateDepartment, DissolveDepartment,
\* DisbandTeam, UpdateRole, ...), applying them changes some field of the
\* aggregate other than version.  (The OrganizationUpdated arm always assigns
\* org.updated_at, a timestamp the aggregate record here does not carry, so
\* that event is left out.)
C23_NoSilentNoOp ==
    [][(pc = "handled" /\ pc' = "idle" /\ pending # <<>>
         /\ \A i \in DOMAIN pending : pending[i].type # "OrganizationUpdated") =>
          [agg' EXCEPT !.version = 0] # [agg EXCEPT !.version = 0]]_vars

(***************************************************************************)
(* SpecListener: OrganizationCommandHandler::start of nats_integration.rs. *)
(* Clients publish command messages, with or without a reply subject, on   *)
(* the command subject; the handler task takes them one at a time:         *)
(* deserialize, handle_command (get or new aggregate, handle, save), then  *)
(* publish a reply when the message has a reply subject.  nats.sent is     *)
(* every message published so far, nats.outcomes what the loop did with    *)
(* the messages it has taken, nats.replies the replies published per       *)
(* message.                                                                *)
(***************************************************************************)
MaxMessages == 3

NoCommand == [type |-> None]

\* OrganizationCommand::aggregate_id
aggregate_id(cmd) ==
    CASE cmd.type = "CreateOrganization" -> None
      [] cmd.type = "MergeOrganizations" -> cmd.surviving_organization_id
      [] cmd.type \in {"AddChildOrganization", "RemoveChildOrganization"} ->
            cmd.parent_organization_id
      [] OTHER -> cmd.organization_id

ListenerCommands ==
    { [type |-> "CreateOrganization", fresh |-> FreshOrgId, name |-> "n1"],
      [type |-> "UpdateOrganization", organization_id |-> SelfId, name |-> "n1",
       status |-> None],
      [type |-> "ChangeOrganizationStatus", organization_id |-> SelfId,
       new_status |-> "Active"],
      [type |-> "ChangeOrganizationStatus", organization_id |-> SelfId,
       new_status |-> "Merged"] }

\* Payloads serde_json::from_slice accepts (valid) or rejects.
Messages ==
    { [valid |-> TRUE, command |-> c, reply |-> rp] :
        c \in ListenerCommands, rp \in BOOLEAN }
    \cup { [valid |-> FALSE, command |-> NoCommand, reply |-> rp] : rp \in BOOLEAN }

IdleNats ==
    [sent |-> <<>>, outcomes |-> <<>>, replies |-> [i \in 1..MaxMessages |-> 0]]

\* A client publishes a command message.
ClientPublish ==
    /\ Len(nats.sent) < MaxMessages
    /\ \E m \in Messages : nats' = [nats EXCEPT !.sent = Append(@, m)]
    /\ UNCHANGED <<aggVars, hdlVars, v2Vars, repoVars, rm, fleet, saved, org, tasks, locks>>

\* The reply published for message i, when it has a reply subject.
Replied(replies, i, m) ==
    IF m.reply THEN [replies EXCEPT ![i] = @ + 1] ELSE replies

\* One iteration of `while let Some(message) = subscriber.next().await`.
\* `published` is the number of JetStream publishes of the save that succeed.
ListenerTake ==
    LET i == Len(nats.outcomes) + 1 IN
    /\ i <= Len(nats.sent)
    /\ LET m == nats.sent[i] IN
       IF ~m.valid
       THEN \* Err(e) => error!("Failed to deserialize command")
            /\ nats' = [nats EXCEPT !.outcomes =
                          Append(@, [ok |-> FALSE, err |-> "Deserialize",
                                     aggregate_id |-> None, events |-> <<>>])]
            /\ UNCHANGED <<stream, snapshots>>
       ELSE \E id \in OrgIds :
            /\ IF aggregate_id(m.command) = None
               THEN stream[id] = <<>> /\ snapshots[id] = <<>>   \* Uuid::now_v7()
               ELSE id = aggregate_id(m.command)
            /\ LET current == RepositoryGet(snapshots, id)
                   aggregate == IF current # <<>> THEN current[1]
                                ELSE New(id, "New Organization")
                   r == HandleCommand(aggregate, m.command) IN
               IF ~r.ok
               THEN /\ nats' = [nats EXCEPT
                                  !.outcomes = Append(@, [ok |-> FALSE, err |-> r.err,
                                                          aggregate_id |-> id,
                                                          events |-> <<>>]),
                                  !.replies = Replied(@, i, m)]
                    /\ UNCHANGED <<stream, snapshots>>
               ELSE \E published \in 0..Len(r.events) :
                    LET ok == published = Len(r.events) IN
                    /\ stream' = append_events_until(stream, id, r.events, published)
                    /\ snapshots' = IF ok
                                    THEN SnapshotsAfterSave(snapshots, id, r.events)
                                    ELSE snapshots
                    /\ nats' = [nats EXCEPT
                                  !.outcomes =
                                      Append(@, [ok |-> ok,
                                                 err |-> IF ok THEN None
                                                         ELSE "ExternalServiceError",
                                                 aggregate_id |-> id,
                                                 events |-> SubSeq(r.events, 1, published)]),
                                  !.replies = Replied(@, i, m)]
    /\ UNCHANGED <<aggVars, hdlVars, v2Vars, got, rm, fleet, saved, org, tasks, locks>>

InitListener ==
    /\ nats = IdleNats
    /\ stream = IdleRepo /\ snapshots = IdleRepo /\ got = <<>>
    /\ rm = NewReadModel /\ fleet = EmptyMap /\ saved = <<>> /\ org = None
    /\ tasks = None /\ locks = None
    /\ AggregateParked
    /\ store = IdleRepo /\ wk = IdleHandlers
    /\ agg2 = None /\ log2 = <<>>

NextListener == ClientPublish \/ ListenerTake

\* The handler task keeps running: a message waiting on the subscription is
\* eventually taken by the loop.
SpecListener == InitListener /\ [][NextListener]_vars /\ WF_vars(ListenerTake)

\* C24: every command message received with a reply subject eventually gets
\* exactly one reply, success or error, also when its payload cannot be
\* deserialized or its save fails.
C24_EveryCommandReplied ==
    \A i \in 1..MaxMessages :
        (Len(nats.sent) >= i /\ nats.sent[i].reply) ~> (nats.replies[i] = 1)

\* C28: a CreateOrganization command processed by handle_command for an id
\* with no stored snapshot is accepted and exactly one OrganizationCreated
\* event is saved (unless a JetStream publish fails).
C28_CreateAccepted ==
    \A i \in DOMAIN nats.outcomes :
        (nats.sent[i].valid /\ nats.sent[i].command.type = "CreateOrganization"
            /\ nats.outcomes[i].err # "ExternalServiceError") =>
            /\ nats.outcomes[i].ok
            /\ Len(nats.outcomes[i].events) = 1
            /\ nats.outcomes[i].events[1].type = "OrganizationCreated"
            /\ stream[nats.outcomes[i].aggregate_id] # <<>>

(***************************************************************************)
(* SpecOrganization: organization.rs, the Organization value and its       *)
(* member methods called in any order over four persons.                   *)
(***************************************************************************)
\* Organization::new: no members.
NewOrganization == [members |-> EmptyMap]

\* Organization::add_member
OrganizationAddMember(o, person_id) ==
    IF person_id \in DOMAIN o.members THEN [org |-> o, ok |-> FALSE]
    ELSE [org |-> [o EXCEPT !.members = Insert(@, person_id, [reports_to |-> None])],
          ok |-> TRUE]

\* Organization::set_reports_to
OrganizationSetReportsTo(o, person_id, manager_id) ==
    IF manager_id \notin DOMAIN o.members THEN [org |-> o, ok |-> FALSE]
    ELSE IF person_id = manager_id THEN [org |-> o, ok |-> FALSE]
    ELSE IF o.members[manager_id].reports_to = person_id THEN [org |-> o, ok |-> FALSE]
    ELSE IF person_id \in DOMAIN o.members
         THEN [org |-> [o EXCEPT !.members[person_id].reports_to = manager_id],
               ok |-> TRUE]
    ELSE [org |-> o, ok |-> FALSE]

\* Organization::remove_member
OrganizationRemoveMember(o, person_id) ==
    IF person_id \in DOMAIN o.members
    THEN LET rest == Remove(o.members, person_id) IN
         [org |-> [o EXCEPT !.members =
                      [p \in DOMAIN rest |->
                          IF rest[p].reports_to = person_id
                          THEN [rest[p] EXCEPT !.reports_to = None]
                          ELSE rest[p]]],
          ok |-> TRUE]
    ELSE [org |-> o, ok |-> FALSE]

OrganizationCall ==
    /\ \E p \in Persons, m \in Persons :
         org' \in {OrganizationAddMember(org, p).org,
                   OrganizationSetReportsTo(org, p, m).org,
                   OrganizationRemoveMember(org, p).org}
    /\ UNCHANGED <<aggVars, hdlVars, v2Vars, repoVars, rm, fleet, saved, nats, tasks, locks>>

InitOrganization ==
    /\ org = NewOrganization
    /\ nats = None /\ rm = NewReadModel /\ fleet = EmptyMap /\ saved = <<>>
    /\ tasks = None /\ locks = None
    /\ AggregateParked
    /\ store = IdleRepo /\ wk = IdleHandlers
    /\ agg2 = None /\ log2 = <<>>
    /\ stream = IdleRepo /\ snapshots = IdleRepo /\ got = <<>>

NextOrganization == OrganizationCall

SpecOrganization == InitOrganization /\ [][NextOrganization]_vars

\* The members reached from p by following reports_to up to n times.
RECURSIVE ReportsChain(_, _, _)
ReportsChain(members, p, n) ==
    IF n = 0 \/ p \notin DOMAIN members \/ members[p].reports_to = None THEN {}
    ELSE {members[p].reports_to}
            \cup ReportsChain(members, members[p].reports_to, n - 1)

\* C25: after any sequence of add_member, set_reports_to and remove_member
\* calls on an organization.rs Organization, following reports_to from a
\* member never returns to that member, whatever the length of the chain.
C25_SetReportsToAcyclic ==
    \A p \in DOMAIN org.members :
        p \notin ReportsChain(org.members, p, Cardinality(Persons))

\* C26: in aggregate/mod.rs, over any sequence of accepted commands with
\* their events applied, every status change is an edge of
\* OrganizationStatus::valid_transitions; Archived has no edge, so an
\* Archived aggregate never changes status.
C26_StatusFollowsValidTransitions ==
    [][agg2'.status # agg2.status =>
          agg2'.status \in valid_transitions(agg2.status)]_vars

\* C27: in aggregate.rs, whenever the aggregate holds an organization
\* entity, aggregate.status equals organization.status after every applied
\* event.
C27_StatusMirrorsOrganization ==
    agg.organization.present => agg.status = agg.organization.status

\* C29: processing a MergeOrganizations command never puts the surviving
\* organization into status Merged: the aggregate the command is routed to
\* by aggregate_id(), the one identified by surviving_organization_id, keeps
\* its status when the command's event is applied.
C29_SurvivorKeepsStatus ==
    [][(pc = "handled" /\ pc' = "idle" /\ last.ok
         /\ last.cmd.type = "MergeOrganizations"
         /\ aggregate_id(last.cmd) = agg.id) =>
            /\ agg'.status = agg.status
            /\ agg'.status # "Merged"]_vars


\* C30: when handle_acquire_organization returns Ok, reloading both
\* organizations from the event store shows the acquired organization with
\* status Acquired and the acquiring organization with the status it had.
C30_AcquiredOrganizationMarked ==
    [][\A w \in Workers :
         (wk[w].pc = "loaded" /\ wk[w].cmd.type = "Acquire"
            /\ wk'[w].pc = "idle" /\ wk'[w].ok) =>
              LET cmd == wk[w].cmd IN
                /\ load(store', cmd.acquired_organization_id)[1].status = "Acquired"
                /\ load(store', cmd.acquiring_organization_id)[1].status =
                     load(store, cmd.acquiring_organization_id)[1].status]_vars


\* C31: after any sequence of accepted commands with their events applied,
\* primary_location_id of the aggregate of aggregate/mod.rs is None or one
\* of the ids in its locations.
C31_PrimaryLocationIsALocation ==
    agg2.primary_location_id = None \/ agg2.primary_location_id \in agg2.locations


(***************************************************************************)
(* SpecReporting: the member commands of aggregate/mod.rs over three       *)
(* persons, each accepted command followed by apply_event of its events.   *)
(* The log is not recorded here.                                           *)
(***************************************************************************)
MaxReporting == 6           \* events applied to the aggregate
ReportingPersons == {"p1", "p2", "p3"}
ReportingManagers == ReportingPersons \cup {None}

DriveMembers(cmd) ==
    /\ agg2.version < MaxReporting
    /\ LET r == HandleCommandV2(agg2, cmd, NilUuid) IN
         /\ r.ok
         /\ agg2' = ApplyAllV2(r.agg, r.events)
    /\ UNCHANGED <<log2, aggVars, hdlVars, repoVars, sideVars>>

ReportingAddMember ==
    /\ \E p \in ReportingPersons, m \in ReportingManagers :
         DriveMembers([type |-> "AddMember", organization_id |-> SelfId,
                       person_id |-> p, role |-> "engineer", reports_to |-> m])
ReportingRemoveMember ==
    /\ \E p \in ReportingPersons :
         DriveMembers([type |-> "RemoveMember", organization_id |-> SelfId,
                       person_id |-> p])
ReportingChangeReporting ==
    /\ \E p \in ReportingPersons, m \in ReportingManagers :
         DriveMembers([type |-> "ChangeReportingRelationship",
                       organization_id |-> SelfId, person_id |-> p,
                       new_manager_id |-> m])

InitReporting == InitReplay

NextReporting ==
    \/ ReportingAddMember \/ ReportingRemoveMember \/ ReportingChangeReporting

SpecReporting == InitReporting /\ [][NextReporting]_vars

\* Following reports_to from p reaches, in at most n steps and through
\* members only, a member that reports to nobody.
RECURSIVE ReachesTop(_, _, _)
ReachesTop(members, p, n) ==
    IF p \notin DOMAIN members THEN FALSE
    ELSE IF members[p].reports_to = None THEN TRUE
    ELSE IF n = 0 THEN FALSE
    ELSE ReachesTop(members, members[p].reports_to, n - 1)

\* C32: after any sequence of accepted member commands with their events
\* applied, every member's reports_to chain stays within the current members
\* and ends at a member without a manager (no dangling manager, no cycle).
C32_ReportingChainsEnd ==
    \A p \in DOMAIN agg2.members :
        ReachesTop(agg2.members, p, Cardinality(DOMAIN agg2.members))

\* C32 witness: all three persons are members and form one chain of
\* managers (p reports to q, q to the third), with the run's events used up.
C32_Witness ==
    /\ agg2.version = MaxReporting
    /\ DOMAIN agg2.members = ReportingPersons
    /\ \E p \in ReportingPersons, q \in ReportingPersons :
         /\ agg2.members[p].reports_to = q
         /\ agg2.members[q].reports_to \notin {None, p}


\* C33: in every state reached through accepted commands with their events
\* applied, an aggregate of aggregate/mod.rs whose status is Dissolved has no
\* child organizations.
C33_DissolvedHasNoChildren ==
    agg2.status = "Dissolved" => agg2.child_units = {}


(***************************************************************************)
(* SpecUpdater: concurrent calls on one ProjectionUpdater over one         *)
(* InMemoryReadModelStore (query_handler.rs).  Every `.await` on a lock is *)
(* a step; a guard lives until the store method returns.  A read guard is  *)
(* taken and dropped within one step, so only write guards are recorded.   *)
(***************************************************************************)
MaxCalls == 2               \* concurrent calls
UpdaterTasks == 1..MaxCalls

StoreLocks == {"organizations", "members", "person_organizations"}
Unlocked == 0               \* a lock no call holds for writing

\* The order in which update_member and remove_member take their write locks.
UpdateMemberLocks == <<"members", "person_organizations">>
RemoveMemberLocksReversed == <<"person_organizations", "members">>
RemoveMemberLocks == <<"members", "person_organizations">>

\* The read model after Created(SelfId) and MemberAdded(pC) were handled.
SeededReadModel ==
    handle_event(
        handle_event(NewReadModel,
            [type |-> "Created", organization_id |-> SelfId, name |-> "n1",
             parent_id |-> None, primary_location_id |-> None]),
        [type |-> "MemberAdded", organization_id |-> SelfId,
         member |-> [person_id |-> "pC", role |-> "engineer", reports_to |-> None]])

\* The events delivered concurrently, and the getters called meanwhile.
UpdaterEvents ==
    { [type |-> "MemberAdded", organization_id |-> SelfId,
       member |-> [person_id |-> p, role |-> "engineer", reports_to |-> None]] :
        p \in {"pA", "pB"} }
    \cup { [type |-> "MemberRemoved", organization_id |-> SelfId, person_id |-> "pC"] }

PersonOf(e) == IF e.type = "MemberAdded" THEN e.member.person_id ELSE e.person_id

UpdaterCalls ==
    { [kind |-> "handle_event", event |-> e, lock |-> None] : e \in UpdaterEvents }
    \cup { [kind |-> "getter", event |-> [type |-> None], lock |-> l] : l \in StoreLocks }

MemberViewOf(e) ==
    [person_id |-> e.member.person_id, role |-> e.member.role,
     reports_to_id |-> e.member.reports_to,
     direct_reports_count |-> 0, is_active |-> TRUE]

LockOrder(e) == IF e.type = "MemberAdded" THEN UpdateMemberLocks ELSE RemoveMemberLocks

\* What update_member / remove_member would make of the store.
StoreCall(r, e) ==
    IF e.type = "MemberAdded"
    THEN update_member(r, e.organization_id, MemberViewOf(e))
    ELSE remove_member(r, e.organization_id, e.person_id)

Release(t) == [l \in StoreLocks |-> IF locks[l] = t THEN Unlocked ELSE locks[l]]

\* update_member / remove_member: the next `.write().await`.  update_member
\* changes `members` once it holds that lock; remove_member changes each map
\* under its lock.
AcquireWrite(t) ==
    /\ tasks[t].pc = "store_call"
    /\ tasks[t].held < Len(LockOrder(tasks[t].call.event))
    /\ LET e == tasks[t].call.event
           l == LockOrder(e)[tasks[t].held + 1] IN
         /\ locks[l] = Unlocked
         /\ locks' = [locks EXCEPT ![l] = t]
         /\ rm' = IF l = "members"
                  THEN [rm EXCEPT !.members = StoreCall(rm, e).members]
                  ELSE IF e.type = "MemberRemoved"
                  THEN [rm EXCEPT !.person_organizations =
                                      StoreCall(rm, e).person_organizations]
                  ELSE rm
    /\ tasks' = [tasks EXCEPT ![t].held = @ + 1]
    /\ UNCHANGED <<aggVars, hdlVars, v2Vars, repoVars, fleet, saved, nats, org>>

\* update_member: `organizations.read().await`, the membership entry, and
\* the return that drops all guards; remove_member: the return.
ReturnFromStore(t) ==
    /\ tasks[t].pc = "store_call"
    /\ tasks[t].held = Len(LockOrder(tasks[t].call.event))
    /\ LET e == tasks[t].call.event IN
         /\ e.type = "MemberAdded" => locks["organizations"] = Unlocked
         /\ rm' = IF e.type = "MemberAdded"
                  THEN [rm EXCEPT !.person_organizations =
                                      StoreCall(rm, e).person_organizations]
                  ELSE rm
    /\ locks' = Release(t)
    /\ tasks' = [tasks EXCEPT ![t].pc = "get", ![t].held = 0]
    /\ UNCHANGED <<aggVars, hdlVars, v2Vars, repoVars, fleet, saved, nats, org>>

\* handle_event: get_organization(e.organization_id)
GetOrganization(t) ==
    /\ tasks[t].pc = "get"
    /\ locks["organizations"] = Unlocked
    /\ LET id == tasks[t].call.event.organization_id IN
         tasks' = [tasks EXCEPT
                     ![t].view = IF id \in DOMAIN rm.organizations
                                 THEN << rm.organizations[id] >> ELSE <<>>,
                     ![t].pc = IF id \in DOMAIN rm.organizations
                               THEN "put" ELSE "done"]
    /\ UNCHANGED <<rm, locks, aggVars, hdlVars, v2Vars, repoVars, fleet, saved, nats, org>>

\* handle_event: member_count +/- 1, update_size_category, update_organization
UpdateOrganizationView(t) ==
    /\ tasks[t].pc = "put"
    /\ locks["organizations"] = Unlocked
    /\ LET view == tasks[t].view[1]
           count == IF tasks[t].call.event.type = "MemberAdded"
                    THEN view.member_count + 1
                    ELSE SaturatingSub(view.member_count, 1) IN
         rm' = update_organization(rm,
                  [view EXCEPT !.member_count = count,
                               !.size_category = calculate_size_category(count)])
    /\ tasks' = [tasks EXCEPT ![t].pc = "done", ![t].view = <<>>]
    /\ UNCHANGED <<locks, aggVars, hdlVars, v2Vars, repoVars, fleet, saved, nats, org>>

\* get_organization, get_all_organizations, get_organization_members,
\* get_person_organizations: one read lock, taken and dropped.
Getter(t) ==
    /\ tasks[t].pc = "getter"
    /\ locks[tasks[t].call.lock] = Unlocked
    /\ tasks' = [tasks EXCEPT ![t].pc = "done"]
    /\ UNCHANGED <<rm, locks, aggVars, hdlVars, v2Vars, repoVars, fleet, saved, nats, org>>

TaskStep(t) ==
    \/ AcquireWrite(t) \/ ReturnFromStore(t) \/ GetOrganization(t)
    \/ UpdateOrganizationView(t) \/ Getter(t)

InitUpdater ==
    /\ rm = SeededReadModel
    /\ locks = [l \in StoreLocks |-> Unlocked]
    /\ tasks \in [UpdaterTasks -> { [call |-> c, held |-> 0, view |-> <<>>,
                                     pc |-> IF c.kind = "getter" THEN "getter"
                                            ELSE "store_call"] : c \in UpdaterCalls }]
    /\ \A t1 \in UpdaterTasks, t2 \in UpdaterTasks :
          (t1 # t2 /\ tasks[t1].call.kind = "handle_event"
                   /\ tasks[t2].call.kind = "handle_event")
             => PersonOf(tasks[t1].call.event) # PersonOf(tasks[t2].call.event)
    /\ fleet = EmptyMap /\ saved = <<>> /\ nats = None /\ org = None
    /\ AggregateParked
    /\ store = IdleRepo /\ wk = IdleHandlers
    /\ agg2 = None /\ log2 = <<>>
    /\ stream = IdleRepo /\ snapshots = IdleRepo /\ got = <<>>

NextUpdater ==
    \E t \in UpdaterTasks :
        \/ AcquireWrite(t) \/ ReturnFromStore(t) \/ GetOrganization(t)
        \/ UpdateOrganizationView(t) \/ Getter(t)

\* Every task is scheduled again: the runtime polls a ready task, and the
\* RwLock hands a released lock to a waiter.
SpecUpdater ==
    InitUpdater /\ [][NextUpdater]_vars /\ \A t \in UpdaterTasks : WF_vars(TaskStep(t))

AllReturned == \A t \in UpdaterTasks : tasks[t].pc = "done"

\* C34: when handle_event runs concurrently for MemberAdded and MemberRemoved
\* events of one organization (distinct persons, each event once), then
\* after all calls have finished the view's member_count equals the number
\* of member views stored for the organization.
C34_MemberCountMatchesMembers ==
    AllReturned =>
        rm.organizations[SelfId].member_count = Len(EntryOrEmpty(rm.members, SelfId))

\* C35: concurrent calls of the store operations never deadlock: every
\* call eventually holds the locks it needs and returns.
C35_EveryCallReturns == <>AllReturned

\* C35 witness: one call holds the `members` write lock while another call
\* that needs it has not acquired anything yet.
C35_Witness ==
    \E t1 \in UpdaterTasks, t2 \in UpdaterTasks :
        /\ t1 # t2
        /\ locks["members"] = t1
        /\ tasks[t2].pc = "store_call" /\ tasks[t2].held = 0


\* Organization::direct_reports
direct_reports(o, person_id) ==
    {p \in DOMAIN o.members : o.members[p].reports_to = person_id}

\* calculate_member_depth(person_id, _) is still making nested calls after
\* `frames` levels of recursion.  Among k members a chain of reports without
\* repetition has at most k - 1 links, so a recursion alive after k levels
\* walks a cycle and never returns.
RECURSIVE StillRecursing(_, _, _)
StillRecursing(o, person_id, frames) ==
    IF frames = 0 THEN TRUE
    ELSE \E r \in direct_reports(o, person_id) : StillRecursing(o, r, frames - 1)

\* C36: in every state reached through add_member, set_reports_to and
\* remove_member, hierarchy_depth terminates: for no member is the
\* recursion of calculate_member_depth deeper than the number of members.
C36_HierarchyDepthTerminates ==
    \A p \in DOMAIN org.members :
        ~StillRecursing(org, p, Cardinality(DOMAIN org.members))

====
